---- MODULE Spec2Model ----
(***************************************************************************)
(* A model of the WebToEpub bot's parser registry and extraction           *)
(* orchestration (database.py, parser.py, main.py).                        *)
(*                                                                         *)
(* Strings that the code inspects character by character (hostnames,       *)
(* domains) are sequences of one-character strings, so that split('.'),    *)
(* startswith, slicing and the $regex substring search are computed as     *)
(* the code computes them.                                                 *)
(***************************************************************************)
EXTENDS Integers, Sequences, FiniteSets, TLC

VARIABLES
    \* The Parser Store
    repo_parsers,    \* the repo_parsers collection, in natural (insertion) order
    PARSERS_LOADED,  \* the module-level flag of parser.py:23
    \* The last get_repo_parser call made on its own
    res_url,         \* its URL, NoUrl when none
    res_out,         \* what it returned
    \* The last write to the Parser Store
    op,              \* "none", "save", "load" or "clean"
    op_batch,        \* the records handed to it
    op_ret,          \* the count it returned
    snap_old,        \* the collection before it
    snap_new,        \* the collection it was to leave behind
    repeated,        \* it is a save of the batch the write before it saved
    loader,          \* the last call of a loader: the manifest it read, the
                     \* flag it met, what it called and whether it raised
    json_call,       \* the call of load_parsers_from_json_content that waits
                     \* in the await of parser.py:207, and its locals
    \* A job that resolves one chapter URL after another
    reader_pc,       \* "idle" or "running"
    seen,            \* the collection its last get_repo_parser read
    overlap,         \* a registry replacement ran while it was running
    \* The custom_parsers collection and the library files on disk
    custom_parsers,  \* the documents, in natural order
    custom_latest,   \* per (user, target): the script of the latest add,
                     \* and whether that add found a document to update
    deps_ok,         \* _load_dependency_scripts finds every library file
    \* One get_chapter_list call (the listing phase of a job)
    pc,              \* "idle", "goto", "exec", "fallback", "returned",
                     \* "raised" or "hung"
    job_url,         \* its url argument
    job_user,        \* its user_id argument
    repo_parser,     \* what get_repo_parser(url) returned
    browser,         \* "none", "open" or "closed"
    page,            \* the page that page.goto rendered
    exec_out,        \* how run_parser_in_browser ended
    exec_script,     \* the script it was handed, "" when it was not called
    exec_calls,      \* the calls of set_result it received, in order
    exec_task,       \* the task it was handed
    pages_open,      \* the pages of the browser that are open
    fallback_ran,    \* the generic scraping of parser.py:313-318 ran
    ret,             \* (title, chapters, parser_found) as returned
    job_exc,         \* the exception it raised to its caller, "" when none
    \* One create_epub_from_chapters call (the content phase of a job); it
    \* shares pc, browser, page, repo_parser and the exec_ variables
    c_chapters,      \* its chapters argument
    c_i,             \* the position in chapters the loop is at
    sections,        \* book_spine without 'nav': the sections, in order
    c_log,           \* what became of each chapter taken so far
    \* The /epub conversation of the chat (main.py:284-288)
    conv,            \* its state: "END" or "CHAPTER_SELECTION"
    user_data,       \* context.user_data: the title and the chapters
    pressed,         \* callback_data of the last button pressed in
                     \* CHAPTER_SELECTION, <<>> when a command came last
    \* One run of generate_parsers_manifest, and the files it works on
    corpus,          \* the parsers directory: file name -> script
    listdir,         \* os.listdir(parsers_dir): its names, in the order the
                     \* file system lists them
    scan_pc,         \* "idle", "scanning", "written", "write raised",
                     \* "nothing written", "done", "aborted" or "hung"
    parser_files,    \* the files to scan, in the order of os.listdir
    processed_count, \* how many of them the loop has taken
    manifest_data,   \* the entries collected, in insertion order
    scan_page,       \* window.registeredDomains of the document in the page
    manifest_file,   \* the content of parsers.json, NoManifest without it
    scan_failed,     \* the files whose scan raised (logged at parser.py:103)
    scan_report      \* the last message of the scan

storeVars == <<repo_parsers, PARSERS_LOADED>>
probeVars == <<res_url, res_out>>
writeVars == <<op, op_batch, op_ret, snap_old, snap_new, repeated, loader, json_call>>
readerVars == <<reader_pc, seen, overlap>>
envVars == <<custom_parsers, custom_latest, deps_ok>>
execVars == <<exec_out, exec_script, exec_calls, exec_task>>
jobVars == <<pc, job_url, job_user, repo_parser, browser, pages_open, page,
             execVars, fallback_ran, ret, job_exc>>
contentVars == <<c_chapters, c_i, sections, c_log>>
convVars == <<conv, user_data, pressed>>
refreshVars == <<corpus, listdir, scan_pc, parser_files, processed_count, manifest_data, scan_page,
                 manifest_file, scan_failed, scan_report>>
vars == <<storeVars, probeVars, writeVars, readerVars, envVars, jobVars, contentVars,
          convVars, refreshVars>>

\* ------------------------------------------------------------------------
\* Bounds of the model
\* ------------------------------------------------------------------------

\* Hostnames and domains have at most this many dot-separated labels.
MaxLabels == 3

\* A batch handed to save_parsers_from_repo has at most this many records.
MaxBatch == 2

\* Longest chapter list handed to the content phase.
MaxChapters == 3

\* Longest chapter list that chapter_selection_callback is entered with.
MaxSelection == 2

\* ------------------------------------------------------------------------
\* Strings
\* ------------------------------------------------------------------------

Dot == "."

\* 'www.' as the code writes it (database.py:106, 114).
WwwDot == <<"w", "w", "w", ".">>

\* str.lower() on the characters the model uses.
LowerChar(c) ==
    CASE c = "A" -> "a"
      [] c = "C" -> "c"
      [] c = "N" -> "n"
      [] OTHER -> c

lower(s) == [i \in 1..Len(s) |-> LowerChar(s[i])]

\* str.startswith(prefix)
startswith(s, prefix) ==
    /\ Len(prefix) <= Len(s)
    /\ SubSeq(s, 1, Len(prefix)) = prefix

\* s[n:] for 0 <= n
SliceFrom(s, n) == SubSeq(s, n + 1, Len(s))

\* Index of the first '.' in s, 0 when there is none.
FirstDot(s) ==
    IF \E i \in 1..Len(s) : s[i] = Dot
    THEN CHOOSE i \in 1..Len(s) : s[i] = Dot /\ \A j \in 1..(i - 1) : s[j] # Dot
    ELSE 0

\* str.split('.'): the labels of a hostname, empty labels kept.
RECURSIVE split(_)
split(s) ==
    IF FirstDot(s) = 0 THEN <<s>>
    ELSE <<SubSeq(s, 1, FirstDot(s) - 1)>> \o split(SliceFrom(s, FirstDot(s)))

\* '.'.join(parts)
RECURSIVE join(_)
join(parts) ==
    IF Len(parts) = 0 THEN <<>>
    ELSE IF Len(parts) = 1 THEN parts[1]
    ELSE parts[1] \o <<Dot>> \o join(Tail(parts))

\* re.search of the literal (escaped) text sub in s: sub occurs in s.
Contains(s, sub) ==
    \E i \in 1..(Len(s) - Len(sub) + 1) : SubSeq(s, i, i + Len(sub) - 1) = sub

\* ------------------------------------------------------------------------
\* Universe of hostnames, domains and URLs
\* ------------------------------------------------------------------------

LabelWww == <<"w", "w", "w">>
LabelA == <<"a">>
LabelXa == <<"x", "a">>
LabelCom == <<"c">>

\* Labels of registered domains (lowercase, as the data model keeps them).
Labels == {LabelWww, LabelA, LabelXa}

\* Label sequences of length 1..n over L that end in the top-level label.
RECURSIVE LabelSeqs(_, _)
LabelSeqs(L, n) ==
    IF n = 1 THEN {<<LabelCom>>}
    ELSE LET shorter == LabelSeqs(L, n - 1)
         IN  shorter \cup {<<l>> \o p : l \in L, p \in {q \in shorter : Len(q) = n - 1}}

\* Domains a record may declare: 'c', 'a.c', 'www.a.c', 'xa.c', ...
Domains == {join(p) : p \in LabelSeqs(Labels, MaxLabels)}

\* Hosts as they appear in a URL: the domains, some with an uppercase letter.
UrlHosts == Domains \cup {join(p) : p \in LabelSeqs({<<"A">>}, 2)}

\* urlparse(url).hostname is None
NoHost == <<>>

\* A URL is its host and its path; the path is never inspected by the resolver.
Url(h, p) == [host |-> h, path |-> p]

\* No call has been made.
NoUrl == [host |-> <<"?">>, path |-> ""]

\* A host one label deeper than the hosts above, 'xa.xa.a.c', and a domain
\* of as many labels that is another host with 'www.' put before it,
\* 'www.xa.a.c'.
DeepHost == join(<<LabelXa, LabelXa, LabelA, LabelCom>>)
DeepDomain == join(<<LabelWww, LabelXa, LabelA, LabelCom>>)

\* URLs handed to the resolver.
Urls == {Url(h, "/x") : h \in UrlHosts \cup {DeepHost, NoHost}}

\* urlparse(url).hostname: the host, lowercased; None (NoHost) when absent.
hostname_of(url) == lower(url.host)

\* ------------------------------------------------------------------------
\* Parser Store: the repo_parsers collection (database.py:14)
\* ------------------------------------------------------------------------

\* find_one returned None
NoParser == [filename |-> "", domains |-> <<>>, script |-> ""]

\* A record's domains array contains d.
HasDomain(rec, d) == \E i \in 1..Len(rec.domains) : rec.domains[i] = d

\* Some element of a record's domains array matches the regex .*h.*
HasDomainRegex(rec, h) == \E i \in 1..Len(rec.domains) : Contains(rec.domains[i], h)

\* repo_parsers_collection.find_one({"domains": d}): the first document, in
\* natural order, whose domains array contains d.
find_one_domain(coll, d) ==
    IF \E i \in 1..Len(coll) : HasDomain(coll[i], d)
    THEN coll[CHOOSE i \in 1..Len(coll) :
                  HasDomain(coll[i], d) /\ \A j \in 1..(i - 1) : ~HasDomain(coll[j], d)]
    ELSE NoParser

\* repo_parsers_collection.find_one({"domains": {"$regex": ".*<h>.*"}})
find_one_regex(coll, h) ==
    IF \E i \in 1..Len(coll) : HasDomainRegex(coll[i], h)
    THEN coll[CHOOSE i \in 1..Len(coll) :
                  HasDomainRegex(coll[i], h)
                      /\ \A j \in 1..(i - 1) : ~HasDomainRegex(coll[j], h)]
    ELSE NoParser

\* The walk with range(1, len(parts) - 2): it stops one label early.
RECURSIVE parent_walk_short(_, _, _)
parent_walk_short(coll, parts, i) ==
    IF i > Len(parts) - 3 THEN NoParser
    ELSE LET parser == find_one_domain(coll, join(SubSeq(parts, i + 1, Len(parts))))
         IN  IF parser # NoParser THEN parser ELSE parent_walk_short(coll, parts, i + 1)

\* The walk with range(1, len(parts)): it goes on to the bare last label.
RECURSIVE parent_walk_to_top(_, _, _)
parent_walk_to_top(coll, parts, i) ==
    IF i > Len(parts) - 1 THEN NoParser
    ELSE LET parser == find_one_domain(coll, join(SubSeq(parts, i + 1, Len(parts))))
         IN  IF parser # NoParser THEN parser ELSE parent_walk_to_top(coll, parts, i + 1)

\* The walk that prefers the shortest suffix: the loop runs to its end and
\* keeps the last hit.
RECURSIVE parent_walk_farthest(_, _, _)
parent_walk_farthest(coll, parts, i) ==
    IF i > Len(parts) - 2 THEN NoParser
    ELSE LET rest == parent_walk_farthest(coll, parts, i + 1)
         IN  IF rest # NoParser THEN rest
             ELSE find_one_domain(coll, join(SubSeq(parts, i + 1, Len(parts))))

\* Step 4 of get_repo_parser: the parent-domain walk over parts[i:], i in
\* range(1, len(parts) - 1), first hit wins.
RECURSIVE parent_walk(_, _, _)
parent_walk(coll, parts, i) ==
    IF i > Len(parts) - 2 THEN NoParser
    ELSE LET parser == find_one_domain(coll, join(SubSeq(parts, i + 1, Len(parts))))
         IN  IF parser # NoParser THEN parser ELSE parent_walk(coll, parts, i + 1)

\* Step 5 of get_repo_parser: the catch-all regex query (database.py:130-137).
regex_step(coll, hostname) == find_one_regex(coll, hostname)

\* Steps 2-5 of get_repo_parser, after the exact match has failed.
after_exact(coll, hostname) ==
    LET www == IF startswith(hostname, WwwDot)
               THEN find_one_domain(coll, SliceFrom(hostname, 4))
               ELSE find_one_domain(coll, WwwDot \o hostname)
        parts == split(hostname)
        parent == IF Len(parts) > 2 THEN parent_walk(coll, parts, 1) ELSE NoParser
    IN  IF www # NoParser THEN www
        ELSE IF parent # NoParser THEN parent
        ELSE regex_step(coll, hostname)

\* get_repo_parser(url) (database.py:71-144)
get_repo_parser(coll, url) ==
    LET hostname == hostname_of(url)
    IN  IF hostname = NoHost THEN NoParser
        ELSE LET exact == find_one_domain(coll, hostname)
             IN  IF exact # NoParser THEN exact ELSE after_exact(coll, hostname)

\* ------------------------------------------------------------------------
\* Text, links and pages
\* ------------------------------------------------------------------------

IsDigit(c) == c \in {"0", "1", "2", "3", "4", "5", "6", "7", "8", "9"}

IsSpace(c) == c = " "

\* str.strip()
RECURSIVE strip(_)
strip(s) ==
    IF Len(s) = 0 THEN s
    ELSE IF IsSpace(s[1]) THEN strip(Tail(s))
    ELSE IF IsSpace(s[Len(s)]) THEN strip(SubSeq(s, 1, Len(s) - 1))
    ELSE s

\* re.search(r'chapter|ep\d+|ch\.\d+', text, re.I) (parser.py:316)
chapter_pattern(text) ==
    \/ Contains(text, <<"c", "h", "a", "p", "t", "e", "r">>)
    \/ \E i \in 1..(Len(text) - 2) :
           SubSeq(text, i, i + 1) = <<"e", "p">> /\ IsDigit(text[i + 2])
    \/ \E i \in 1..(Len(text) - 3) :
           SubSeq(text, i, i + 2) = <<"c", "h", ".">> /\ IsDigit(text[i + 3])

\* The value of an href attribute or of a chapter's url key: an absolute
\* URL ("abs"), a path from the root ("path"), the empty string ("empty"),
\* or no attribute or key at all ("none").
Href(k, h, p) == [kind |-> k, host |-> h, path |-> p]

NoHref == Href("none", <<>>, "")

\* urljoin(base, href) (parser.py:300, 316)
urljoin(base, href) ==
    CASE href.kind = "abs" -> Url(href.host, href.path)
      [] href.kind = "path" -> Url(base.host, href.path)
      [] OTHER -> base

\* An <a> element: its text and its href.
Anchor(t, h) == [text |-> t, href |-> h]

\* A chapter as get_chapter_list returns it.
Chapter(t, u) == [title |-> t, url |-> u, selected |-> TRUE]

\* chapter.get('selected', default): a chapter dict may lack the key.
get_selected(chapter, default) ==
    IF "selected" \in DOMAIN chapter THEN chapter.selected ELSE default

\* chapter['selected'] = value
set_selected(chapter, value) ==
    [title |-> chapter.title, url |-> chapter.url, selected |-> value]

TextFullPage ==
    <<"F", "u", "l", "l", " ", "P", "a", "g", "e", " ", "C", "o", "n", "t", "e", "n", "t">>
TextUntitled == <<"U", "n", "t", "i", "t", "l", "e", "d">>

\* The <title> of a page: absent, without a string, or a text.
NoTitleTag == <<"<", "n", "o", "n", "e", ">">>
EmptyTitle == <<>>

\* The link filter without the href=True of find_all.
is_chapter_link_text_only(a) ==
    /\ strip(a.text) # <<>>
    /\ chapter_pattern(lower(a.text))

\* The link filter of parser.py:315-316 applied to one anchor.
is_chapter_link(a) ==
    /\ a.href.kind # "none"
    /\ strip(a.text) # <<>>
    /\ chapter_pattern(lower(a.text))

\* The list comprehension of parser.py:316 over the anchors, in document
\* order.
RECURSIVE chapter_links(_, _)
chapter_links(url, anchors) ==
    IF Len(anchors) = 0 THEN <<>>
    ELSE LET a == Head(anchors)
             rest == chapter_links(url, Tail(anchors))
         IN  IF is_chapter_link(a)
             THEN <<Chapter(strip(a.text), urljoin(url, a.href))>> \o rest
             ELSE rest

\* The chapter list with the synthetic chapter left out.
extract_chapters_no_synthetic(url, anchors) == chapter_links(url, anchors)

\* The fallback extractor (parser.py:315-318).
extract_chapters(url, anchors) ==
    LET chapters == chapter_links(url, anchors)
    IN  IF Len(chapters) = 0
        THEN <<Chapter(TextFullPage, url)>>
        ELSE chapters

\* (soup.find('title').string or 'Untitled').strip() (parser.py:314), for a
\* page that has a <title>.
page_title(title) == strip(IF title = EmptyTitle THEN TextUntitled ELSE title)

\* ------------------------------------------------------------------------
\* Script Execution Engine: run_parser_in_browser (parser.py:214-271)
\* ------------------------------------------------------------------------

\* A parser script is described by what it does when it is evaluated: the
\* handler classes it hands to parserFactory.register, in order, and what
\* each handler's constructor and capabilities do when called.  A call
\* returns, throws an Error object ("throwError"), throws null
\* ("throwNull") or never finishes ("hang"); a capability may also be
\* absent from the handler.

TextNovel == <<"N", "o", "v", "e", "l">>
TextDoc == <<"D", "o", "c">>
TextOne == <<"O", "n", "e">>
TextTwo == <<"T", "w", "o">>

\* A chapter as a handler's getChapters yields it: title and url.
Item(t, u) == [title |-> t, url |-> u]

ItemsGood == <<Item(TextOne, Href("path", <<>>, "/1")),
               Item(TextTwo, Href("abs", join(<<LabelXa, LabelCom>>), "/2"))>>

\* The chapters of a handler that names the link sourceUrl, not url.
ItemsNoUrl == <<Item(TextOne, NoHref)>>

HandlerGood ==
    [ctor |-> "return", isChapterUrl |-> "false", getChapters |-> "return",
     chapters |-> ItemsGood, getNovelTitle |-> "return", getContent |-> "return",
     getChapterTitle |-> "absent"]

\* The handler classes of the model, by name.
Handler(h) ==
    CASE h = "good" -> HandlerGood
      [] h = "empty" -> [HandlerGood EXCEPT !.chapters = <<>>]
      [] h = "noUrl" -> [HandlerGood EXCEPT !.chapters = ItemsNoUrl]
      [] h = "noTitle" -> [HandlerGood EXCEPT !.getNovelTitle = "undefined"]
      [] h = "bare" -> [HandlerGood EXCEPT !.isChapterUrl = "absent",
                                           !.getNovelTitle = "absent"]
      [] h = "single" -> [HandlerGood EXCEPT !.isChapterUrl = "true"]
      [] h = "singleTitled" -> [HandlerGood EXCEPT !.isChapterUrl = "true",
                                                   !.getChapterTitle = "return"]
      [] h = "ctorThrows" -> [HandlerGood EXCEPT !.ctor = "throwError"]
      [] h = "ctorThrowsNull" -> [HandlerGood EXCEPT !.ctor = "throwNull"]
      [] h = "checkThrows" -> [HandlerGood EXCEPT !.isChapterUrl = "throwError"]
      [] h = "listThrows" -> [HandlerGood EXCEPT !.getChapters = "throwError"]
      [] h = "listThrowsNull" -> [HandlerGood EXCEPT !.getChapters = "throwNull"]
      [] h = "titleThrows" -> [HandlerGood EXCEPT !.getNovelTitle = "throwError"]
      [] h = "listHangs" -> [HandlerGood EXCEPT !.getChapters = "hang"]
      [] h = "callsBack" -> HandlerGood
      [] h = "contentThrows" -> [HandlerGood EXCEPT !.isChapterUrl = "true",
                                                    !.getContent = "throwError"]
      [] h = "contentNull" -> [HandlerGood EXCEPT !.isChapterUrl = "true",
                                                  !.getContent = "returnNull"]
      [] h = "contentObject" -> [HandlerGood EXCEPT !.isChapterUrl = "true",
                                                    !.getContent = "returnObject"]
      [] h = "contentHangs" -> [HandlerGood EXCEPT !.isChapterUrl = "true",
                                                   !.getContent = "hang"]
      [] h = "notChapterHangs" -> [HandlerGood EXCEPT !.getContent = "hang"]

\* The parser scripts of the model: the handler classes each registers.
ScriptRegs(script) ==
    CASE script = "none" -> <<>>
      [] script = "twice" -> <<"empty", "good">>
      [] script = "twiceOver" -> <<"checkThrows", "single">>
      [] OTHER -> <<script>>

ParserScripts ==
    {"good", "empty", "noUrl", "noTitle", "bare", "single", "ctorThrows",
     "ctorThrowsNull", "checkThrows", "listThrows", "listThrowsNull",
     "titleThrows", "listHangs", "none", "twice", "twiceOver", "callsBack",
     "singleTitled",
     "contentThrows", "contentNull", "contentObject", "contentHangs",
     "notChapterHangs"}

\* The scripts that throw while registering or inside a capability.
ThrowingScripts ==
    {"ctorThrows", "ctorThrowsNull", "checkThrows", "listThrows",
     "listThrowsNull", "titleThrows"}

\* Markup: what a handler extracted from the page at url ("script"), the
\* whole rendered page ("raw"), or none.
Html(src, url) == [source |-> src, url |-> url]
NoHtml == Html("", NoUrl)

\* The value a task leaves in result, as json.loads returns it; has_title
\* (has_html) is FALSE when the title (html) is undefined, which
\* JSON.stringify drops from the object.  error is the reason of an Error:
\* "unknown", "crashed", "not chapter" or "no parser".
ErrorResult(reason) ==
    [kind |-> "error", error |-> reason, has_title |-> FALSE, title |-> <<>>,
     chapters |-> <<>>, has_html |-> FALSE, html |-> NoHtml]

ChaptersResult(has, t, items) ==
    [kind |-> "chapters", error |-> "", has_title |-> has, title |-> t,
     chapters |-> items, has_html |-> FALSE, html |-> NoHtml]

ContentResult(has, html) ==
    [kind |-> "content", error |-> "", has_title |-> FALSE, title |-> <<>>,
     chapters |-> <<>>, has_html |-> has, html |-> html]

\* No result: the call did not return one.
NoResult == ErrorResult("")

\* The results a script hands to window.sendResultToPython by itself while
\* it is evaluated, before the page function sends its own.
ScriptCallbacks(script) ==
    IF script = "callsBack" THEN <<ErrorResult("script")>>
    ELSE <<>>

\* How the evaluation of the page function ends: "sent" (it called
\* sendResultToPython with result), "rejected" (an exception left the
\* function) or "hang" (it never finishes).
Sent(result) == [status |-> "sent", result |-> result]
Rejected == [status |-> "rejected", result |-> NoResult]
Hang == [status |-> "hang", result |-> NoResult]

\* The catch block (parser.py:264-266): error.toString() is itself a
\* TypeError when the thrown value is null.
catch_block(thrown) ==
    IF thrown = "throwNull" THEN Rejected ELSE Sent(ErrorResult("crashed"))

\* A catch block whose own failure is swallowed.
catch_block_total(thrown) == Sent(ErrorResult("crashed"))

\* eval(parserScript) with a register hook that keeps the first handler.
RECURSIVE eval_script_first(_, _)
eval_script_first(regs, active) ==
    IF Len(regs) = 0 THEN [thrown |-> "", active |-> active]
    ELSE IF Handler(Head(regs)).ctor = "return"
         THEN eval_script_first(Tail(regs), IF active = "" THEN Head(regs) ELSE active)
         ELSE [thrown |-> Handler(Head(regs)).ctor, active |-> active]

\* eval(parserScript) with the register hook of parser.py:236-238: the
\* handler left in activeParserInstance ("" for null), or what a
\* constructor threw.
RECURSIVE eval_script(_, _)
eval_script(regs, active) ==
    IF Len(regs) = 0 THEN [thrown |-> "", active |-> active]
    ELSE IF Handler(Head(regs)).ctor = "return"
         THEN eval_script(Tail(regs), Head(regs))
         ELSE [thrown |-> Handler(Head(regs)).ctor, active |-> active]

\* parser.getNovelTitle ? parser.getNovelTitle() : document.title, then the
\* result object, for the chapters items (parser.py:245-251).
with_novel_title(parser, doc, items) ==
    CASE parser.getNovelTitle = "absent" -> Sent(ChaptersResult(TRUE, doc.title, items))
      [] parser.getNovelTitle = "return" -> Sent(ChaptersResult(TRUE, TextNovel, items))
      [] parser.getNovelTitle = "undefined" -> Sent(ChaptersResult(FALSE, <<>>, items))
      [] OTHER -> catch_block(parser.getNovelTitle)

\* parser.getChapterTitle ? parser.getChapterTitle() : document.title
\* (parser.py:246); a handler that has the capability names the chapter
\* 'One'.
chapter_title(parser, doc) ==
    IF parser.getChapterTitle = "return" THEN TextOne ELSE doc.title

\* The branch of a chapter page (parser.py:245-247): the novel title is read
\* first, then the chapter title, then the result is built.
single_chapter(parser, doc) ==
    IF parser.getNovelTitle \in {"throwError", "throwNull"}
    THEN catch_block(parser.getNovelTitle)
    ELSE IF parser.getChapterTitle \in {"throwError", "throwNull"}
    THEN catch_block(parser.getChapterTitle)
    ELSE with_novel_title(parser, doc,
             <<Item(chapter_title(parser, doc),
                    Href("abs", doc.url.host, doc.url.path))>>)

\* The task 'getChapters' (parser.py:243-252).
task_getChapters(parser, doc) ==
    CASE parser.isChapterUrl \in {"throwError", "throwNull"} ->
             catch_block(parser.isChapterUrl)
      [] parser.isChapterUrl = "true" -> single_chapter(parser, doc)
      [] OTHER ->
             CASE parser.getChapters = "hang" -> Hang
               [] parser.getChapters \in {"throwError", "throwNull"} ->
                      catch_block(parser.getChapters)
               [] OTHER -> with_novel_title(parser, doc, parser.chapters)

\* The task 'getContent' without the test of isChapterUrl.
task_getContent_unchecked(parser, doc) ==
    CASE parser.getContent = "hang" -> Hang
      [] parser.getContent \in {"throwError", "throwNull"} ->
             catch_block(parser.getContent)
      [] OTHER -> Sent(ContentResult(TRUE, Html("script", doc.url)))

\* The task 'getContent' (parser.py:253-260).
task_getContent(parser, doc) ==
    CASE parser.isChapterUrl \in {"throwError", "throwNull"} ->
             catch_block(parser.isChapterUrl)
      [] parser.isChapterUrl = "true" ->
             CASE parser.getContent = "hang" -> Hang
               [] parser.getContent \in {"throwError", "throwNull"} ->
                      catch_block(parser.getContent)
               [] parser.getContent = "returnNull" -> catch_block("throwError")
               [] parser.getContent = "returnObject" -> Sent(ContentResult(FALSE, NoHtml))
               [] OTHER -> Sent(ContentResult(TRUE, Html("script", doc.url)))
      [] OTHER -> Sent(ErrorResult("not chapter"))

\* The page function running the tasks on a default handler when the
\* script registered none.
page_evaluate_default(script, task, doc) ==
    LET reg == eval_script(ScriptRegs(script), "")
        active == IF reg.active = "" THEN "single" ELSE reg.active
    IN  IF reg.thrown # "" THEN catch_block(reg.thrown)
        ELSE IF task = "getChapters" THEN task_getChapters(Handler(active), doc)
        ELSE task_getContent(Handler(active), doc)

\* The function evaluated in the page (parser.py:231-269).
page_evaluate(script, task, doc) ==
    LET reg == eval_script(ScriptRegs(script), "")
    IN  IF reg.thrown # "" THEN catch_block(reg.thrown)
        ELSE IF reg.active = "" THEN Sent(ErrorResult("no parser"))
        ELSE IF task = "getChapters" THEN task_getChapters(Handler(reg.active), doc)
        ELSE task_getContent(Handler(reg.active), doc)

\* How a call of run_parser_in_browser ends: it returns result, raises the
\* exception exc, or never returns.
Returned(result) == [status |-> "return", result |-> result, exc |-> ""]
Raised(exc) == [status |-> "raise", result |-> NoResult, exc |-> exc]
NeverReturns == [status |-> "hang", result |-> NoResult, exc |-> ""]
NotRun == [status |-> "none", result |-> NoResult, exc |-> ""]

\* The future of parser.py:220, pending.
NoFuture == [done |-> FALSE, result |-> NoResult]

\* set_result keeping the result of the last call.
set_result_last(future, result_json) == [done |-> TRUE, result |-> result_json]

\* set_result(result_json) (parser.py:222-224) on the future.
set_result(future, result_json) ==
    IF ~future.done THEN [done |-> TRUE, result |-> result_json] ELSE future

\* The calls of sendResultToPython, in order, applied to the future.
RECURSIVE deliver(_, _)
deliver(future, calls) ==
    IF Len(calls) = 0 THEN future
    ELSE deliver(set_result(future, Head(calls)), Tail(calls))

\* The calls of sendResultToPython one evaluation makes: the script's own,
\* then the page function's (parser.py:267) when it gets there.
callbacks(parser_script, e) ==
    ScriptCallbacks(parser_script) \o (IF e.status = "sent" THEN <<e.result>> ELSE <<>>)

\* asyncio.wait_for(future, timeout=30.0) (parser.py:271): the result of a
\* future that is done, TimeoutError for one that stays pending.
wait_for(future) ==
    IF future.done THEN Returned(future.result) ELSE Raised("TimeoutError")

\* run_parser_in_browser(page, parser_script, task_type) (parser.py:214-271);
\* deps tells whether _load_dependency_scripts found every library file,
\* delivered whether the calls of sendResultToPython reach set_result within
\* the 30 s.  page.evaluate is awaited first and has no timeout of its own.
run_parser_in_browser(deps, doc, parser_script, task_type, delivered) ==
    IF ~deps THEN Raised("FileNotFoundError")
    ELSE LET e == page_evaluate(parser_script, task_type, doc)
             calls == IF delivered THEN callbacks(parser_script, e) ELSE <<>>
         IN  CASE e.status = "rejected" -> Raised("Error")
               [] e.status = "hang" -> NeverReturns
               [] OTHER -> wait_for(deliver(NoFuture, calls))

\* ------------------------------------------------------------------------
\* Writing the Parser Store
\* ------------------------------------------------------------------------

\* Index of the first document whose filename is f, 0 when there is none.
IndexOfFile(coll, f) ==
    IF \E i \in 1..Len(coll) : coll[i].filename = f
    THEN CHOOSE i \in 1..Len(coll) :
             coll[i].filename = f /\ \A j \in 1..(i - 1) : coll[j].filename # f
    ELSE 0

\* UpdateOne as a plain insert of p.
UpdateOne_insert(coll, p) ==
    [coll |-> Append(coll, p), upserted |-> 1, modified |-> 0]

\* UpdateOne reporting every matched document as modified.
UpdateOne_counts_matched(coll, p) ==
    LET i == IndexOfFile(coll, p.filename)
    IN  IF i = 0
        THEN [coll |-> Append(coll, p), upserted |-> 1, modified |-> 0]
        ELSE [coll |-> [coll EXCEPT ![i] = p], upserted |-> 0, modified |-> 1]

\* UpdateOne({'filename': p['filename']}, {'$set': p}, upsert=True) applied to
\* coll: the collection after it, and what it adds to upserted_count and
\* modified_count (a matched document that already equals p is not modified).
UpdateOne(coll, p) ==
    LET i == IndexOfFile(coll, p.filename)
    IN  IF i = 0
        THEN [coll |-> Append(coll, p), upserted |-> 1, modified |-> 0]
        ELSE [coll |-> [coll EXCEPT ![i] = p],
              upserted |-> 0,
              modified |-> IF coll[i] = p THEN 0 ELSE 1]

\* bulk_write(operations): the operations applied in order.
RECURSIVE bulk_write(_, _)
bulk_write(coll, parsers_data) ==
    IF Len(parsers_data) = 0
    THEN [coll |-> coll, upserted_count |-> 0, modified_count |-> 0]
    ELSE LET one == UpdateOne(coll, Head(parsers_data))
             rest == bulk_write(one.coll, Tail(parsers_data))
         IN  [coll |-> rest.coll,
              upserted_count |-> one.upserted + rest.upserted_count,
              modified_count |-> one.modified + rest.modified_count]

\* save_parsers_from_repo(parsers_data) (database.py:35-48): the collection
\* after the call and the value returned.
save_parsers_from_repo(coll, parsers_data) ==
    IF Len(parsers_data) = 0 THEN [coll |-> coll, ret |-> 0]
    ELSE LET result == bulk_write(coll, parsers_data)
         IN  [coll |-> result.coll,
              ret |-> result.upserted_count + result.modified_count]

\* get_parser_count() (database.py:50-52)
get_parser_count(coll) == Len(coll)

\* clean_repo_parsers() (database.py:54-57): delete_many({}).
clean_repo_parsers(coll) == [coll |-> <<>>, ret |-> Len(coll)]

\* clean_database(): main.py imports it from database (line 16) and
\* clean_db_command calls it (line 66), but database.py does not define it.
\* It is modelled from the Parser Store contract of the specification,
\* Clear(), for each collection: none holds a document afterwards.
clean_database(coll) == [coll |-> <<>>, ret |-> Len(coll)]

\* A clear that deletes nothing.
clean_all_parsers_keeps(coll) == [coll |-> coll, ret |-> 0]

\* clean_all_parsers(): parser.py imports it from database (line 7) and calls
\* it at lines 152 and 204, but database.py does not define it.  It is
\* modelled from the Parser Store contract of the specification, Clear():
\* the store holds no parser record afterwards.  The callers drop its value.
clean_all_parsers(coll) == [coll |-> <<>>, ret |-> Len(coll)]

\* ------------------------------------------------------------------------
\* Initial values of each group of variables
\* ------------------------------------------------------------------------

\* No call to get_repo_parser has been made.
NotSeen == <<[filename |-> "?", domains |-> <<>>, script |-> ""]>>

InitStore == repo_parsers = <<>> /\ PARSERS_LOADED = FALSE

InitProbe == res_url = NoUrl /\ res_out = NoParser

\* No loader has been called.
NoLoaderCall ==
    [call |-> "none", flag |-> FALSE, counted |-> FALSE, loaded |-> FALSE,
     cleared |-> FALSE, raised |-> FALSE, manifest |-> <<>>]

\* No call of load_parsers_from_json_content is under way.
NoJsonCall ==
    [waiting |-> FALSE, saved_count |-> 0, to_save |-> <<>>, manifest |-> <<>>]

InitWrite ==
    /\ json_call = NoJsonCall
    /\ op = "none"
    /\ op_batch = <<>>
    /\ op_ret = 0
    /\ snap_old = <<>>
    /\ snap_new = <<>>
    /\ repeated = FALSE
    /\ loader = NoLoaderCall

InitReader == reader_pc = "idle" /\ seen = NotSeen /\ overlap = FALSE

\* get_custom_parser returned None
NoCustom == [user_id |-> 0, target_url |-> NoUrl, script |-> ""]

NoPage == [url |-> NoUrl, title |-> <<>>, anchors |-> <<>>]

NoRet == [title |-> <<>>, chapters |-> <<>>, parser_found |-> FALSE]

\* context.user_data without a title and chapters.
NoUserData == [title |-> <<>>, chapters |-> <<>>]

InitEnv == custom_parsers = <<>> /\ custom_latest = {} /\ deps_ok = TRUE

\* parsers.json does not exist
NoManifest == <<[filename |-> "", domains |-> <<>>]>>

\* parsers.json holds text that json.load rejects.
BadManifest == <<[filename |-> "", domains |-> <<<<"?">>>>]>>

InitRefreshVars ==
    /\ corpus = <<>>
    /\ listdir = <<>>
    /\ scan_pc = "idle"
    /\ parser_files = <<>>
    /\ processed_count = 0
    /\ manifest_data = <<>>
    /\ scan_page = <<>>
    /\ manifest_file = NoManifest
    /\ scan_failed = {}
    /\ scan_report = "none"

\* No job is running.
InitRun ==
    /\ pc = "idle"
    /\ job_url = NoUrl
    /\ job_user = 0
    /\ repo_parser = NoParser
    /\ browser = "none"
    /\ page = NoPage
    /\ exec_out = NotRun
    /\ exec_script = ""
    /\ exec_calls = <<>>
    /\ exec_task = ""
    /\ pages_open = 0
    /\ fallback_ran = FALSE
    /\ ret = NoRet
    /\ job_exc = ""
    /\ c_chapters = <<>>
    /\ c_i = 0
    /\ sections = <<>>
    /\ c_log = <<>>

\* No job is running and no conversation is under way.
InitJob ==
    /\ InitRun
    /\ conv = "END"
    /\ user_data = NoUserData
    /\ pressed = <<>>

\* ------------------------------------------------------------------------
\* Specification SpecResolve: a registry is built, then resolved against
\* ------------------------------------------------------------------------

\* Script files of the corpus.
Filenames == {"A.js", "B.js", "C.js"}

\* The files whose records make up the registries of SpecResolve.
ResolveFilenames == {"A.js", "B.js"}

\* The domains arrays a record may carry: every single domain, and the pairs
\* of the short ones.
DomainLists ==
    {<<d>> : d \in Domains \cup {DeepDomain}}
        \cup {<<d, e>> : d \in {x \in Domains : Len(split(x)) <= 2},
                         e \in {x \in Domains : Len(split(x)) = 2}}

\* One record is saved through save_parsers_from_repo, between two calls of
\* get_repo_parser (the call is synchronous: nothing runs during it).
SaveRecord ==
    /\ res_url = NoUrl
    /\ \E f \in ResolveFilenames, dl \in DomainLists :
           repo_parsers' = save_parsers_from_repo(repo_parsers,
               <<[filename |-> f, domains |-> dl, script |-> "s1"]>>).coll
    /\ UNCHANGED <<convVars, contentVars, refreshVars, PARSERS_LOADED, probeVars, writeVars, readerVars, envVars, jobVars>>

\* get_repo_parser(url) is called and returns.
Resolve ==
    /\ res_url = NoUrl
    /\ \E u \in Urls :
           /\ res_url' = u
           /\ res_out' = get_repo_parser(repo_parsers, u)
    /\ UNCHANGED <<convVars, contentVars, refreshVars, storeVars, writeVars, readerVars, envVars, jobVars>>

\* The caller drops the result.
ResolveDone ==
    /\ res_url # NoUrl
    /\ res_url' = NoUrl
    /\ res_out' = NoParser
    /\ UNCHANGED <<convVars, contentVars, refreshVars, storeVars, writeVars, readerVars, envVars, jobVars>>

InitResolve ==
    InitStore /\ InitProbe /\ InitWrite /\ InitReader /\ InitEnv /\ InitJob /\ InitRefreshVars

NextResolve == SaveRecord \/ Resolve \/ ResolveDone

SpecResolve == InitResolve /\ [][NextResolve]_vars

\* ------------------------------------------------------------------------
\* Specification SpecStore: writes to the Parser Store, and a job reading it
\* ------------------------------------------------------------------------

\* The domains arrays of the records written in SpecStore: 'a.c' and 'xa.c'.
DomainsAc == <<join(<<LabelA, LabelCom>>)>>
DomainsXac == <<join(<<LabelXa, LabelCom>>)>>

\* The records written in SpecStore: A.js in two versions, B.js and C.js.
StoreRecords ==
    {[filename |-> "A.js", domains |-> DomainsAc, script |-> "s1"],
     [filename |-> "A.js", domains |-> DomainsXac, script |-> "s1"],
     [filename |-> "B.js", domains |-> DomainsAc, script |-> "s1"],
     [filename |-> "C.js", domains |-> DomainsXac, script |-> "s1"]}

\* No two records of the sequence carry the same filename.
DistinctFilenames(recs) ==
    \A i, j \in 1..Len(recs) : recs[i].filename = recs[j].filename => i = j

\* Sequences over S of length 0..n.
RECURSIVE SeqsUpTo(_, _)
SeqsUpTo(S, n) ==
    IF n = 0 THEN {<<>>}
    ELSE LET shorter == SeqsUpTo(S, n - 1)
         IN  shorter \cup {Append(q, x) : q \in {r \in shorter : Len(r) = n - 1}, x \in S}

\* The lists parsers_to_save that the loaders build: one record per key of
\* the manifest dict (parser.py:137-149, 189-201), so no filename twice.
Batches == {b \in SeqsUpTo(StoreRecords, MaxBatch) : DistinctFilenames(b)}

\* clean_all_parsers() followed by save_parsers_from_repo(parsers_to_save)
\* (parser.py:152-153, 204-205): no await stands between the two calls.
replace_all(coll, parsers_to_save) ==
    save_parsers_from_repo(clean_all_parsers(coll).coll, parsers_to_save)

\* save_parsers_from_repo(batch) is called on the store as it is.
SaveBatch ==
    \E b \in Batches :
        LET r == save_parsers_from_repo(repo_parsers, b)
        IN  /\ repo_parsers' = r.coll
            /\ op' = "save"
            /\ op_batch' = b
            /\ op_ret' = r.ret
            /\ snap_old' = repo_parsers
            /\ snap_new' = r.coll
            /\ repeated' = (op = "save" /\ op_batch = b)
            /\ seen' = NotSeen
            /\ UNCHANGED <<convVars, contentVars, refreshVars, PARSERS_LOADED, probeVars, reader_pc, overlap, envVars, jobVars, loader, json_call>>

\* The branch "if parsers_to_save:" of load_parsers_from_manifest
\* (parser.py:151-155) when save_parsers_from_repo returns: the store is
\* cleared, the new records are saved and PARSERS_LOADED is set in one step
\* of the event loop; the else branch changes nothing.
\* load_parsers_from_json_content replaces the store the same way (lines
\* 203-205) and sets the flag after an await (207-208).  The call in which
\* save_parsers_from_repo raises is LoadParsersFails.
LoadParsers ==
    \E b \in Batches :
        IF Len(b) > 0
        THEN LET r == replace_all(repo_parsers, b)
             IN  /\ repo_parsers' = r.coll
                 /\ PARSERS_LOADED' = TRUE
                 /\ op' = "load"
                 /\ op_batch' = b
                 /\ op_ret' = r.ret
                 /\ snap_old' = repo_parsers
                 /\ snap_new' = b
                 /\ repeated' = FALSE
                 /\ seen' = NotSeen
                 /\ overlap' = (reader_pc = "running")
                 /\ UNCHANGED <<convVars, contentVars, refreshVars, probeVars, reader_pc, envVars, jobVars, loader, json_call>>
        ELSE UNCHANGED vars

\* clean_repo_parsers() is called.
CleanParsers ==
    LET r == clean_repo_parsers(repo_parsers)
    IN  /\ repo_parsers' = r.coll
        /\ op' = "clean"
        /\ op_batch' = <<>>
        /\ op_ret' = r.ret
        /\ snap_old' = repo_parsers
        /\ snap_new' = <<>>
        /\ repeated' = FALSE
        /\ seen' = NotSeen
        /\ UNCHANGED <<convVars, contentVars, refreshVars, PARSERS_LOADED, probeVars, reader_pc, overlap, envVars, jobVars, loader, json_call>>

\* A job starts and waits for its first page.
ReaderStart ==
    /\ reader_pc = "idle"
    /\ reader_pc' = "running"
    /\ overlap' = FALSE
    /\ UNCHANGED <<convVars, contentVars, refreshVars, storeVars, probeVars, writeVars, seen, envVars, jobVars>>

\* The job's page has loaded and it calls get_repo_parser for the chapter
\* (parser.py:334-335): every find_one of the call reads the collection as
\* it is now, the call holding no await.
ReaderResolve ==
    /\ reader_pc = "running"
    /\ seen' = repo_parsers
    /\ UNCHANGED <<convVars, contentVars, refreshVars, storeVars, probeVars, writeVars, reader_pc, overlap, envVars, jobVars>>

\* The job ends.
ReaderEnd ==
    /\ reader_pc = "running"
    /\ reader_pc' = "idle"
    /\ seen' = NotSeen
    /\ overlap' = FALSE
    /\ UNCHANGED <<convVars, contentVars, refreshVars, storeVars, probeVars, writeVars, envVars, jobVars>>

\* bulk_write(operations) that raises after its first k operations were
\* applied (the write is ordered; k = 0 when the server cannot be reached):
\* the collection it leaves.
bulk_write_interrupted(coll, parsers_data, k) ==
    bulk_write(coll, SubSeq(parsers_data, 1, k)).coll

\* The loaders' "if parsers_to_save:" branch (parser.py:151-155, 203-208)
\* when save_parsers_from_repo raises out of bulk_write (database.py:46):
\* the store was cleared before, the exception leaves the loader, and
\* PARSERS_LOADED is not set.
LoadParsersFails ==
    \E b \in Batches :
        /\ Len(b) > 0
        /\ \E k \in 0..(Len(b) - 1) :
               repo_parsers' = bulk_write_interrupted(
                                   clean_all_parsers(repo_parsers).coll, b, k)
        /\ op' = "load failed"
        /\ op_batch' = b
        /\ op_ret' = 0
        /\ snap_old' = repo_parsers
        /\ snap_new' = b
        /\ repeated' = FALSE
        /\ seen' = NotSeen
        /\ overlap' = (reader_pc = "running")
        /\ UNCHANGED <<convVars, contentVars, refreshVars, PARSERS_LOADED, probeVars, reader_pc,
                       envVars, jobVars, loader, json_call>>

InitStoreSpec ==
    InitStore /\ InitProbe /\ InitWrite /\ InitReader /\ InitEnv /\ InitJob /\ InitRefreshVars

NextStore ==
    \/ SaveBatch
    \/ LoadParsers
    \/ LoadParsersFails
    \/ CleanParsers
    \/ ReaderStart
    \/ ReaderResolve
    \/ ReaderEnd

SpecStore == InitStoreSpec /\ [][NextStore]_vars

\* ------------------------------------------------------------------------
\* Specification SpecLoad: the registry loads alone
\* ------------------------------------------------------------------------

NextLoad == SaveBatch \/ LoadParsers \/ LoadParsersFails

SpecLoad == InitStoreSpec /\ [][NextLoad]_vars


\* ------------------------------------------------------------------------
\* The loaders of the Parser Store: load_parsers_from_manifest,
\* ensure_parsers_are_loaded, load_parsers_from_json_content
\* ------------------------------------------------------------------------

\* The entries a manifest may hold.
ManifestEntries ==
    {[filename |-> r.filename, domains |-> r.domains] : r \in StoreRecords}

\* The contents of parsers.json: a JSON object has each key once.
Manifests ==
    {m \in SeqsUpTo(ManifestEntries, MaxBatch) : DistinctFilenames(m)}

\* The loop over manifest.items() (parser.py:137-149, 189-201): a record for
\* each entry whose script file opens, in the order of the entries; an
\* entry whose file is not found is logged and left out.
RECURSIVE parsers_to_save(_, _)
parsers_to_save(manifest, dir) ==
    IF Len(manifest) = 0 THEN <<>>
    ELSE LET e == Head(manifest)
             rest == parsers_to_save(Tail(manifest), dir)
         IN  IF e.filename \in DOMAIN dir
             THEN <<[filename |-> e.filename, domains |-> e.domains,
                     script |-> dir[e.filename]]>> \o rest
             ELSE rest

\* What a call of a loader leaves: PARSERS_LOADED, the store, saved_count,
\* whether it cleared the store, whether it raised, and its list
\* parsers_to_save; whether it called get_parser_count and whether it read
\* a manifest are set by the caller.
Outcome(flag, coll, saved_count, cleared, raised, to_save) ==
    [flag |-> flag, coll |-> coll, ret |-> saved_count, cleared |-> cleared,
     raised |-> raised, to_save |-> to_save, counted |-> FALSE, loaded |-> FALSE]

\* The branch "if parsers_to_save:" of load_parsers_from_manifest
\* (parser.py:151-157): clean_all_parsers(), save_parsers_from_repo(...),
\* then PARSERS_LOADED = True; nothing on an empty list.  bulk_write applies
\* all of its operations (k = Len(to_save)) or raises after the first k.
store_loaded(flag, coll, to_save, k) ==
    IF Len(to_save) = 0
    THEN Outcome(flag, coll, 0, FALSE, FALSE, to_save)
    ELSE IF k < Len(to_save)
    THEN Outcome(flag,
                 bulk_write_interrupted(clean_all_parsers(coll).coll, to_save, k),
                 0, TRUE, TRUE, to_save)
    ELSE Outcome(TRUE, replace_all(coll, to_save).coll,
                 replace_all(coll, to_save).ret, TRUE, FALSE, to_save)

\* load_parsers_from_manifest() (parser.py:117-157): a missing or invalid
\* parsers.json is re-raised before anything is read or written.
load_parsers_from_manifest(flag, coll, file, dir, k) ==
    IF file \in {NoManifest, BadManifest}
    THEN Outcome(flag, coll, 0, FALSE, TRUE, <<>>)
    ELSE store_loaded(flag, coll, parsers_to_save(file, dir), k)

\* ensure_parsers_are_loaded with no test of PARSERS_LOADED.
ensure_parsers_are_loaded_unflagged(flag, coll, file, dir, k) ==
    IF get_parser_count(coll) = 0
    THEN [load_parsers_from_manifest(flag, coll, file, dir, k)
              EXCEPT !.counted = TRUE, !.loaded = TRUE]
    ELSE [Outcome(TRUE, coll, 0, FALSE, FALSE, <<>>) EXCEPT !.counted = TRUE]

\* ensure_parsers_are_loaded() (parser.py:159-172): what the call leaves in
\* PARSERS_LOADED and the store, whether it called get_parser_count and
\* load_parsers_from_manifest, and whether it raised.
ensure_parsers_are_loaded(flag, coll, file, dir, k) ==
    IF flag
    THEN Outcome(flag, coll, 0, FALSE, FALSE, <<>>)
    ELSE IF get_parser_count(coll) = 0
    THEN [load_parsers_from_manifest(flag, coll, file, dir, k)
              EXCEPT !.counted = TRUE, !.loaded = TRUE]
    ELSE [Outcome(TRUE, coll, 0, FALSE, FALSE, <<>>) EXCEPT !.counted = TRUE]

\* load_parsers_from_json_content(json_content, sent_message)
\* (parser.py:174-211): invalid JSON is reported and the call returns; the
\* report of a load is sent before PARSERS_LOADED is set (lines 207-208),
\* so a report that raises (edited = FALSE) leaves the flag as it was.
load_parsers_from_json_content(flag, coll, content, dir, k, edited) ==
    IF content = BadManifest
    THEN Outcome(flag, coll, 0, FALSE, ~edited, <<>>)
    ELSE [store_loaded(flag, coll, parsers_to_save(content, dir), k)
              EXCEPT !.flag = IF edited THEN @ ELSE flag,
                     !.raised = @ \/ ~edited,
                     !.loaded = TRUE]

\* What a call of ensure_parsers_are_loaded() writes, bulk_write applying
\* all of its operations or raising after the first k: the store, the flag
\* and the record of the call.
ensure_call(k) ==
    LET r == ensure_parsers_are_loaded(PARSERS_LOADED, repo_parsers,
                                       manifest_file, corpus, k)
    IN  /\ k <= Len(r.to_save)
        /\ repo_parsers' = r.coll
        /\ PARSERS_LOADED' = r.flag
        /\ op' = "ensure"
        /\ op_batch' = r.to_save
        /\ op_ret' = r.ret
        /\ snap_old' = repo_parsers
        /\ snap_new' = r.to_save
        /\ repeated' = FALSE
        /\ loader' = [call |-> "ensure", flag |-> PARSERS_LOADED,
                      counted |-> r.counted, loaded |-> r.loaded,
                      cleared |-> r.cleared, raised |-> r.raised,
                      manifest |-> IF r.loaded /\ manifest_file \notin {NoManifest, BadManifest}
                                   THEN manifest_file ELSE <<>>]
        /\ UNCHANGED json_call

\* ------------------------------------------------------------------------
\* Specification Spec: the listing phase of jobs, get_chapter_list
\* (parser.py:273-320), next to the handler that stores custom parsers
\* ------------------------------------------------------------------------

Users == {1, 2}

HostAc == join(<<LabelA, LabelCom>>)
HostXac == join(<<LabelXa, LabelCom>>)

\* The URLs jobs are started for: the first is a domain of the registry
\* record, the second resolves to nothing.
ListingUrls == {Url(HostAc, "/n"), Url(HostXac, "/n")}

\* The URLs users upload custom parsers for.
CustomTargets == {Url(HostAc, "/n")}

\* The scripts users upload as custom parsers.
CustomScripts == {"single", "empty"}

\* The registries the jobs run against: empty, or one record for 'a.c'.
ListingRegistries ==
    {<<>>} \cup {<<[filename |-> "A.js", domains |-> <<HostAc>>, script |-> s]>> :
                    s \in ParserScripts}

TextNext == <<"N", "e", "x", "t">>
TextChapter == <<"C", "h", "a", "p", "t", "e", "r">>
TextEp1 == <<" ", "e", "p", "1", " ">>
TextEp == <<"e", "p">>
TextCh2 == <<"c", "h", ".", "2">>
TextBlank == <<" ">>

\* A rendered page: its URL, the text of its <title>, its <a> elements.
Page(u, t, as) == [url |-> u, title |-> t, anchors |-> as]

\* What page.goto(url) may render.
Pages(u) ==
    { Page(u, <<" ">> \o TextDoc, <<Anchor(TextNext, Href("path", <<>>, "/2")),
                                   Anchor(TextBlank, Href("path", <<>>, "/3")),
                                   Anchor(TextEp, Href("path", <<>>, "/4"))>>),
      Page(u, TextDoc, <<Anchor(TextEp1, Href("path", <<>>, "/1")),
                         Anchor(TextNext, Href("path", <<>>, "/2")),
                         Anchor(TextChapter, Href("abs", HostXac, "/2")),
                         Anchor(TextCh2, Href("empty", <<>>, ""))>>),
      Page(u, EmptyTitle, <<Anchor(TextChapter, NoHref),
                            Anchor(TextNext, Href("path", <<>>, "/2"))>>),
      Page(u, TextDoc, <<Anchor(TextCh2, NoHref),
                         Anchor(TextEp1, Href("path", <<>>, "/1"))>>),
      Page(u, NoTitleTag, <<Anchor(TextCh2, Href("path", <<>>, "/1"))>>) }

\* document.title and document.URL as the page function reads them.
document_title(pg) == IF pg.title = NoTitleTag THEN <<>> ELSE strip(pg.title)

Document(pg) == [url |-> pg.url, title |-> document_title(pg)]

\* Index of the first custom document of that user and target, 0 for none.
IndexOfCustom(coll, user_id, target_url) ==
    IF \E i \in 1..Len(coll) :
           coll[i].user_id = user_id /\ coll[i].target_url = target_url
    THEN CHOOSE i \in 1..Len(coll) :
             /\ coll[i].user_id = user_id /\ coll[i].target_url = target_url
             /\ \A j \in 1..(i - 1) :
                    ~(coll[j].user_id = user_id /\ coll[j].target_url = target_url)
    ELSE 0

\* add_custom_parser as a plain insert_one.
add_custom_parser_insert(coll, user_id, target_url, script_content) ==
    Append(coll, [user_id |-> user_id, target_url |-> target_url,
                  script |-> script_content])

\* add_custom_parser(user_id, target_url, script_content) (database.py:59-65)
add_custom_parser(coll, user_id, target_url, script_content) ==
    LET i == IndexOfCustom(coll, user_id, target_url)
    IN  IF i = 0
        THEN Append(coll, [user_id |-> user_id, target_url |-> target_url,
                           script |-> script_content])
        ELSE [coll EXCEPT ![i].script = script_content]

\* get_custom_parser(user_id, url) (database.py:67-69)
get_custom_parser(coll, user_id, url) ==
    LET i == IndexOfCustom(coll, user_id, url)
    IN  IF i = 0 THEN NoCustom ELSE coll[i]

\* The test that accepts a result (parser.py:294).
accepted(result) == result.kind = "chapters" /\ Len(result.chapters) > 0

\* result['title'] and every chapter['url'] exist (parser.py:296-299); a
\* missing key is a KeyError.
keys_present(result) ==
    /\ result.has_title
    /\ \A i \in 1..Len(result.chapters) : result.chapters[i].url.kind # "none"

\* The chapters of an accepted result as returned (parser.py:297-300).
\* The loop of parser.py:298-300 leaving 'selected' unset.
RECURSIVE accepted_chapters_unmarked(_, _)
accepted_chapters_unmarked(url, items) ==
    IF Len(items) = 0 THEN <<>>
    ELSE <<[title |-> Head(items).title, url |-> urljoin(url, Head(items).url)]>>
             \o accepted_chapters_unmarked(url, Tail(items))

RECURSIVE accepted_chapters(_, _)
accepted_chapters(url, items) ==
    IF Len(items) = 0 THEN <<>>
    ELSE <<Chapter(Head(items).title, urljoin(url, Head(items).url))>>
             \o accepted_chapters(url, Tail(items))

\* A render session: the state of the launched browser ("none", "open",
\* "closed") and the number of its pages that are open.
Session(b, n) == [browser |-> b, pages |-> n]

\* Leaving the async with block without stopping the driver.
playwright_keeps(sess) == sess

\* Leaving `async with async_playwright()` (parser.py:280, 328): the driver
\* is stopped, which closes a browser it launched that is still open, and
\* its pages.
playwright_stop(sess) ==
    Session(IF sess.browser = "open" THEN "closed" ELSE sess.browser, 0)

\* browser.close(): the browser and its pages are closed.
browser_close(sess) == Session("closed", 0)

\* page.close() that leaves the page open.
page_close_noop(sess) == sess

\* page.close() on an open page.
page_close(sess) == Session(sess.browser, sess.pages - 1)

\* The record of the adds after add_custom_parser(user_id, target_url,
\* script_content) was called.
latest_add(latest, user_id, target_url, script_content) ==
    LET same(e) == e.user_id = user_id /\ e.target_url = target_url
    IN  {e \in latest : ~same(e)} \cup
            {[user_id |-> user_id, target_url |-> target_url,
              script |-> script_content,
              replaced |-> \E e \in latest : same(e)]}

\* received_parser_file stores a custom parser (main.py:115-131).  The
\* application handles one update at a time (main.py:269), so it runs
\* between jobs.
AddCustomParser ==
    /\ pc = "idle"
    /\ \E u \in Users, t \in CustomTargets, s \in CustomScripts :
           /\ custom_parsers' = add_custom_parser(custom_parsers, u, t, s)
           /\ custom_latest' = latest_add(custom_latest, u, t, s)
    /\ UNCHANGED <<convVars, contentVars, refreshVars, storeVars, probeVars, writeVars, readerVars, deps_ok, jobVars>>

\* get_chapter_list(url, user_id) up to the new page (parser.py:273-283);
\* user_id is not used.  When p.chromium.launch() raises (line 281: Chrome
\* is on disk but does not start) no browser was launched; when
\* browser.new_page() raises (line 282) one was.  Either exception leaves
\* the async with block.  coll is the Parser Store the call meets.
get_chapter_list_start(coll, u, usr) ==
    \E chrome \in BOOLEAN, launched \in BOOLEAN, opened \in BOOLEAN :
           /\ job_url' = u
           /\ job_user' = usr
           /\ IF ~chrome
              THEN /\ repo_parser' = NoParser
                   /\ pc' = "raised"
                   /\ job_exc' = "FileNotFoundError"
                   /\ UNCHANGED <<browser, pages_open>>
              ELSE /\ repo_parser' = get_repo_parser(coll, u)
                   /\ IF ~launched
                      THEN /\ browser' = playwright_stop(Session("none", 0)).browser
                           /\ pages_open' = playwright_stop(Session("none", 0)).pages
                           /\ pc' = "raised"
                           /\ job_exc' = "Error"
                      ELSE IF opened
                      THEN /\ browser' = "open"
                           /\ pages_open' = 1
                           /\ pc' = "goto"
                           /\ UNCHANGED job_exc
                      ELSE /\ browser' = playwright_stop(Session("open", 0)).browser
                           /\ pages_open' = playwright_stop(Session("open", 0)).pages
                           /\ pc' = "raised"
                           /\ job_exc' = "Error"

\* One call of get_chapter_list(url, user_id) on its own.
ListStart ==
    /\ pc = "idle"
    /\ \E u \in ListingUrls, usr \in Users : get_chapter_list_start(repo_parsers, u, usr)
    /\ UNCHANGED <<convVars, refreshVars, storeVars, probeVars, writeVars, readerVars, envVars,
                   contentVars, page, execVars, fallback_ran, ret>>

\* A failed navigation that lets the listing go on to the generic scraping.
goto_except_absorbed(sess) ==
    [pc |-> "fallback", exc |-> "IOError", sess |-> sess]

\* `except Exception` of page.goto (parser.py:285-287): the browser is
\* closed and IOError raised to the caller.
goto_except(sess) ==
    [pc |-> "raised", exc |-> "IOError", sess |-> browser_close(sess)]

\* page.goto(url) (parser.py:284-288).
ListGoto ==
    /\ pc = "goto"
    /\ \/ \E pg \in Pages(job_url) :
              /\ page' = pg
              /\ pc' = IF repo_parser # NoParser THEN "exec" ELSE "fallback"
              /\ UNCHANGED <<browser, pages_open, job_exc>>
       \/ /\ browser' = goto_except(Session(browser, pages_open)).sess.browser
          /\ pages_open' = goto_except(Session(browser, pages_open)).sess.pages
          /\ pc' = goto_except(Session(browser, pages_open)).pc
          /\ job_exc' = goto_except(Session(browser, pages_open)).exc
          /\ UNCHANGED page
    /\ UNCHANGED <<convVars, refreshVars, storeVars, probeVars, writeVars, readerVars, envVars,
                   contentVars, job_url, job_user, repo_parser, execVars,
                   fallback_ran, ret>>

\* The branch of the found parser (parser.py:290-308).
ListExec ==
    /\ pc = "exec"
    /\ \E delivered \in BOOLEAN :
       LET out == run_parser_in_browser(deps_ok, Document(page),
                     repo_parser.script, "getChapters", delivered)
           e == page_evaluate(repo_parser.script, "getChapters", Document(page))
       IN  /\ exec_out' = out
           /\ exec_script' = repo_parser.script
           /\ exec_task' = "getChapters"
           /\ exec_calls' = IF deps_ok /\ delivered
                            THEN callbacks(repo_parser.script, e) ELSE <<>>
           /\ CASE out.status = "hang" ->
                       /\ pc' = "hung"
                       /\ UNCHANGED <<browser, pages_open, ret>>
                [] out.status = "raise" ->
                       /\ pc' = "fallback"
                       /\ UNCHANGED <<browser, pages_open, ret>>
                [] OTHER ->
                       IF accepted(out.result)
                       THEN /\ browser' = browser_close(Session(browser, pages_open)).browser
                            /\ pages_open' = browser_close(Session(browser, pages_open)).pages
                            /\ IF keys_present(out.result)
                               THEN /\ pc' = "returned"
                                    /\ ret' = [title |-> out.result.title,
                                               chapters |-> accepted_chapters(
                                                   job_url, out.result.chapters),
                                               parser_found |-> TRUE]
                               ELSE /\ pc' = "fallback"
                                    /\ UNCHANGED ret
                       ELSE /\ pc' = "fallback"
                            /\ UNCHANGED <<browser, pages_open, ret>>
    /\ UNCHANGED <<convVars, refreshVars, storeVars, probeVars, writeVars, readerVars, envVars,
                   contentVars, job_url, job_user, repo_parser, page, fallback_ran, job_exc>>

\* The generic scraping (parser.py:310-320): page.content() raises on a
\* closed browser and may raise on an open one; soup.find('title') is None
\* without a <title>.  An exception leaves the async with block.
ListFallback ==
    /\ pc = "fallback"
    /\ \E read \in BOOLEAN :
           IF browser = "closed" \/ ~read
           THEN /\ browser' = playwright_stop(Session(browser, pages_open)).browser
                /\ pages_open' = playwright_stop(Session(browser, pages_open)).pages
                /\ pc' = "raised"
                /\ job_exc' = "Error"
                /\ UNCHANGED <<fallback_ran, ret>>
           ELSE /\ browser' = browser_close(Session(browser, pages_open)).browser
                /\ pages_open' = browser_close(Session(browser, pages_open)).pages
                /\ fallback_ran' = TRUE
                /\ IF page.title = NoTitleTag
                   THEN /\ pc' = "raised"
                        /\ job_exc' = "AttributeError"
                        /\ UNCHANGED ret
                   ELSE /\ pc' = "returned"
                        /\ UNCHANGED job_exc
                        /\ ret' = [title |-> page_title(page.title),
                                   chapters |-> extract_chapters(job_url, page.anchors),
                                   parser_found |-> FALSE]
    /\ UNCHANGED <<convVars, refreshVars, storeVars, probeVars, writeVars, readerVars, envVars,
                   contentVars, job_url, job_user, repo_parser, page, execVars>>

\* The caller takes the result or the exception (main.py:235-254).
ListDone ==
    /\ pc \in {"returned", "raised"}
    /\ pc' = "idle"
    /\ job_url' = NoUrl
    /\ job_user' = 0
    /\ repo_parser' = NoParser
    /\ browser' = "none"
    /\ pages_open' = 0
    /\ page' = NoPage
    /\ exec_out' = NotRun
    /\ exec_script' = ""
    /\ exec_task' = ""
    /\ exec_calls' = <<>>
    /\ fallback_ran' = FALSE
    /\ ret' = NoRet
    /\ job_exc' = ""
    /\ UNCHANGED <<convVars, refreshVars, storeVars, probeVars, writeVars, readerVars, envVars,
                   contentVars>>

\* The registry was loaded and the library files are on disk or not.
Init ==
    /\ repo_parsers \in ListingRegistries
    /\ PARSERS_LOADED = (Len(repo_parsers) > 0)
    /\ InitProbe /\ InitWrite /\ InitReader
    /\ custom_parsers = <<>>
    /\ custom_latest = {}
    /\ deps_ok \in BOOLEAN
    /\ InitJob
    /\ InitRefreshVars

Next ==
    \/ AddCustomParser
    \/ ListStart
    \/ ListGoto
    \/ ListExec
    \/ ListFallback
    \/ ListDone

Spec == Init /\ [][Next]_vars

\* The event loop runs every step that is ready: an update that arrived is
\* handled and an await whose awaitable completed resumes.
SpecLive == Spec /\ WF_vars(Next)

\* ------------------------------------------------------------------------
\* Specification SpecJob: both phases of jobs, get_chapter_list and
\* create_epub_from_chapters (parser.py:322-367)
\* ------------------------------------------------------------------------

\* The chapters a caller may hand to the content phase.
ChapterPool ==
    {Chapter(TextOne, Url(HostAc, "/1")),
     Chapter(TextTwo, Url(HostXac, "/2")),
     [Chapter(TextTwo, Url(HostAc, "/2")) EXCEPT !.selected = FALSE],
     [title |-> TextOne, url |-> Url(HostXac, "/1")]}

ContentChapters == SeqsUpTo(ChapterPool, MaxChapters) \ {<<>>}

\* What page.goto(chapter url) renders.
ContentPage(u) == Page(u, TextDoc, <<>>)

\* page.content() returning nothing.
page_content_empty(pg) == NoHtml

\* page.content(): the markup of the rendered page.
page_content(pg) == Html("raw", pg.url)

\* final_html (parser.py:350): the title in an <h1>, then the content.
final_html(title, content) == [h1 |-> title, body |-> content]

\* The EpubHtml item of parser.py:351-352 for the chapter at position i.
EpubHtml(i, title, content) ==
    [title |-> title, file_name |-> i, content |-> final_html(title, content)]

\* book_spine.append with the new section put first.
spine_prepend(spine, item) == <<item>> \o spine

\* book_spine.append(epub_chapter) (parser.py:354)
spine_append(spine, item) == Append(spine, item)

\* An exception of a chapter that ends the whole content phase.
chapter_except_reraise(sess) ==
    [pc |-> "c_raised", sess |-> playwright_stop(page_close(sess))]

\* `except Exception` and `finally: await page.close()` of a chapter
\* (parser.py:358-361): the exception is logged, the page closed, and the
\* loop goes on.
chapter_except(sess) == [pc |-> "c_loop", sess |-> page_close(sess)]

\* An entry of the log of the content phase: what became of the chapter at
\* position pos.
LogEntry(pos, what, found, out) ==
    [pos |-> pos, what |-> what, found |-> found, out |-> out]

\* create_epub_from_chapters up to the loop (parser.py:322-329).
EpubStart ==
    /\ pc = "idle"
    /\ \E chs \in ContentChapters, launched \in BOOLEAN :
           /\ c_chapters' = chs
           /\ IF launched
              THEN browser' = "open" /\ pc' = "c_loop"
              ELSE browser' = "none" /\ pc' = "c_raised"
    /\ c_i' = 0
    /\ sections' = <<>>
    /\ c_log' = <<>>
    /\ UNCHANGED <<convVars, refreshVars, storeVars, probeVars, writeVars, readerVars, envVars,
                   job_url, job_user, job_exc, repo_parser, pages_open, page, execVars,
                   fallback_ran, ret>>

\* The head of the loop (parser.py:330-332, 362): the next chapter is
\* skipped when it is not selected, else a page is opened for it; after the
\* last one the browser is closed.  When browser.new_page() raises, the
\* exception leaves the async with block.
EpubNext ==
    /\ pc = "c_loop"
    /\ IF c_i = Len(c_chapters)
       THEN /\ browser' = browser_close(Session(browser, pages_open)).browser
            /\ pages_open' = browser_close(Session(browser, pages_open)).pages
            /\ pc' = "c_done"
            /\ UNCHANGED c_i
       ELSE /\ c_i' = c_i + 1
            /\ IF ~get_selected(c_chapters[c_i + 1], FALSE)
               THEN UNCHANGED <<pc, browser, pages_open>>
               ELSE \E opened \in BOOLEAN :
                        IF opened
                        THEN /\ pages_open' = pages_open + 1
                             /\ pc' = "c_goto"
                             /\ UNCHANGED browser
                        ELSE /\ browser' = playwright_stop(Session(browser, pages_open)).browser
                             /\ pages_open' = playwright_stop(Session(browser, pages_open)).pages
                             /\ pc' = "c_raised"
    /\ UNCHANGED <<convVars, refreshVars, storeVars, probeVars, writeVars, readerVars, envVars,
                   job_url, job_user, job_exc, repo_parser, page, execVars, fallback_ran, ret,
                   c_chapters, sections, c_log>>

\* page.goto(chapter url), then get_repo_parser (parser.py:333-335); a
\* failed navigation is logged (358-359) and the page closed (360-361).
EpubGoto ==
    /\ pc = "c_goto"
    /\ LET url == c_chapters[c_i].url
       IN  \/ /\ page' = ContentPage(url)
              /\ repo_parser' = get_repo_parser(repo_parsers, url)
              /\ pc' = IF get_repo_parser(repo_parsers, url) # NoParser
                       THEN "c_exec" ELSE "c_raw"
              /\ UNCHANGED <<browser, pages_open, c_log>>
           \/ /\ c_log' = Append(c_log, LogEntry(c_i, "navigation failed", FALSE, NotRun))
              /\ browser' = chapter_except(Session(browser, pages_open)).sess.browser
              /\ pages_open' = chapter_except(Session(browser, pages_open)).sess.pages
              /\ pc' = chapter_except(Session(browser, pages_open)).pc
              /\ UNCHANGED <<page, repo_parser>>
    /\ exec_out' = NotRun
    /\ exec_script' = ""
    /\ exec_calls' = <<>>
    /\ exec_task' = ""
    /\ UNCHANGED <<convVars, refreshVars, storeVars, probeVars, writeVars, readerVars, envVars,
                   job_url, job_user, job_exc, fallback_ran, ret,
                   c_chapters, c_i, sections>>

\* The branch of the found parser (parser.py:337-346): a content result
\* with its html ends the chapter (350-354, 360-361); anything else goes on
\* to page.content().
EpubExec ==
    /\ pc = "c_exec"
    /\ \E delivered \in BOOLEAN :
       LET out == run_parser_in_browser(deps_ok, Document(page),
                     repo_parser.script, "getContent", delivered)
           e == page_evaluate(repo_parser.script, "getContent", Document(page))
           title == c_chapters[c_i].title
       IN  /\ exec_out' = out
           /\ exec_script' = repo_parser.script
           /\ exec_task' = "getContent"
           /\ exec_calls' = IF deps_ok /\ delivered
                            THEN callbacks(repo_parser.script, e) ELSE <<>>
           /\ IF out.status = "hang"
              THEN /\ pc' = "hung"
                   /\ UNCHANGED <<pages_open, sections, c_log>>
              ELSE IF out.status = "return" /\ out.result.kind = "content"
                      /\ out.result.has_html
              THEN /\ sections' = spine_append(sections,
                                      EpubHtml(c_i, title, out.result.html))
                   /\ c_log' = Append(c_log, LogEntry(c_i, "section", TRUE, out))
                   /\ pages_open' = page_close(Session(browser, pages_open)).pages
                   /\ pc' = "c_loop"
              ELSE /\ pc' = "c_raw"
                   /\ UNCHANGED <<pages_open, sections, c_log>>
    /\ UNCHANGED <<convVars, refreshVars, storeVars, probeVars, writeVars, readerVars, envVars,
                   job_url, job_user, job_exc, repo_parser, browser, page, fallback_ran, ret,
                   c_chapters, c_i>>

\* chapter_html_content = await page.content() (parser.py:345, 348 or 350),
\* then the section (350-354); when page.content() raises the chapter is
\* logged (358-359); the page is closed either way (360-361).
EpubRaw ==
    /\ pc = "c_raw"
    /\ LET title == c_chapters[c_i].title
           found == repo_parser # NoParser
       IN  \E read \in BOOLEAN :
               IF read
               THEN /\ sections' = spine_append(sections,
                                       EpubHtml(c_i, title, page_content(page)))
                    /\ c_log' = Append(c_log, LogEntry(c_i, "section", found, exec_out))
                    /\ pages_open' = page_close(Session(browser, pages_open)).pages
                    /\ pc' = "c_loop"
                    /\ UNCHANGED browser
               ELSE /\ c_log' = Append(c_log, LogEntry(c_i, "content failed", found, exec_out))
                    /\ browser' = chapter_except(Session(browser, pages_open)).sess.browser
                    /\ pages_open' = chapter_except(Session(browser, pages_open)).sess.pages
                    /\ pc' = chapter_except(Session(browser, pages_open)).pc
                    /\ UNCHANGED sections
    /\ UNCHANGED <<convVars, refreshVars, storeVars, probeVars, writeVars, readerVars, envVars,
                   job_url, job_user, job_exc, repo_parser, page, execVars,
                   fallback_ran, ret, c_chapters, c_i>>

\* The caller takes the document or the exception (main.py:205-217).
EpubDone ==
    /\ pc \in {"c_done", "c_raised"}
    /\ pc' = "idle"
    /\ repo_parser' = NoParser
    /\ browser' = "none"
    /\ pages_open' = 0
    /\ page' = NoPage
    /\ exec_out' = NotRun
    /\ exec_script' = ""
    /\ exec_task' = ""
    /\ exec_calls' = <<>>
    /\ c_chapters' = <<>>
    /\ c_i' = 0
    /\ sections' = <<>>
    /\ c_log' = <<>>
    /\ UNCHANGED <<convVars, refreshVars, storeVars, probeVars, writeVars, readerVars, envVars,
                   job_url, job_user, job_exc, fallback_ran, ret>>

NextJob ==
    \/ ListStart
    \/ ListGoto
    \/ ListExec
    \/ ListFallback
    \/ ListDone
    \/ EpubStart
    \/ EpubNext
    \/ EpubGoto
    \/ EpubExec
    \/ EpubRaw
    \/ EpubDone

SpecJob == Init /\ [][NextJob]_vars

\* The event loop runs every step that is ready: an await whose awaitable
\* completed resumes.
SpecJobLive == SpecJob /\ WF_vars(NextJob)

\* ------------------------------------------------------------------------
\* Specification SpecCustom: the custom store under any sequence of adds
\* ------------------------------------------------------------------------

\* The target URLs that users register custom parsers for.
CustomKeys == ListingUrls

\* received_parser_file (main.py:115-131) for any user and target: a
\* document that is not a .js file is refused, a failed download is
\* caught, else add_custom_parser is called.
ReceivedParserFile ==
    /\ pc = "idle"
    /\ \E u \in Users, t \in CustomKeys, s \in CustomScripts,
          js \in BOOLEAN, downloaded \in BOOLEAN :
           IF js /\ downloaded
           THEN /\ custom_parsers' = add_custom_parser(custom_parsers, u, t, s)
                /\ custom_latest' = latest_add(custom_latest, u, t, s)
           ELSE UNCHANGED <<custom_parsers, custom_latest>>
    /\ UNCHANGED <<convVars, contentVars, refreshVars, storeVars, probeVars, writeVars,
                   readerVars, deps_ok, jobVars>>

InitCustom ==
    InitStore /\ InitProbe /\ InitWrite /\ InitReader /\ InitEnv /\ InitJob /\ InitRefreshVars

NextCustom == ReceivedParserFile

SpecCustom == InitCustom /\ [][NextCustom]_vars

\* ------------------------------------------------------------------------
\* Specification SpecConv: the /epub conversation of the chat
\* (main.py:174-265, 284-288), which runs both phases of a job
\* ------------------------------------------------------------------------

\* The texts of callback_data (main.py:151-162, 244).
TextToggle == <<"t", "o", "g", "g", "l", "e">>
TextPage == <<"p", "a", "g", "e">>
TextSelect == <<"s", "e", "l", "e", "c", "t">>
TextDeselect == <<"d", "e">> \o TextSelect
TextDone == <<"d", "o", "n", "e">>
TextAll == <<"a", "l", "l">>
TextDp == <<"d", "p">>

Underscore == "_"

DecimalDigits == <<"0", "1", "2", "3", "4", "5", "6", "7", "8", "9">>

\* str(n) of the f-string of main.py:151, for n >= 0
RECURSIVE str(_)
str(n) ==
    IF n < 10 THEN <<DecimalDigits[n + 1]>>
    ELSE str(n \div 10) \o <<DecimalDigits[(n % 10) + 1]>>

\* int(s) (main.py:180) raises ValueError: s is not a number written in
\* decimal digits (texts with a sign or blanks are not in the model).
int_raises(s) == Len(s) = 0 \/ \E i \in 1..Len(s) : ~IsDigit(s[i])

\* int(s) for a text of decimal digits
RECURSIVE int(_)
int(s) ==
    LET last == CHOOSE d \in 0..9 : DecimalDigits[d + 1] = s[Len(s)]
    IN  IF Len(s) = 1 THEN last
        ELSE 10 * int(SubSeq(s, 1, Len(s) - 1)) + last

\* str.partition('_') (main.py:177): the text before the first '_' and the
\* text after it; the whole text and '' when it has none.
partition(s) ==
    IF \E i \in 1..Len(s) : s[i] = Underscore
    THEN LET i == CHOOSE i \in 1..Len(s) :
                      s[i] = Underscore /\ \A j \in 1..(i - 1) : s[j] # Underscore
         IN  [head |-> SubSeq(s, 1, i - 1), tail |-> SliceFrom(s, i)]
    ELSE [head |-> s, tail |-> <<>>]

\* callback_data of the buttons of build_chapter_selection_keyboard
\* (main.py:151, 159, 160, 162) and of the "Yes"/"No" keyboard (244).
DataToggle(i) ==
    TextToggle \o <<Underscore>> \o <<"c", "h", "a", "p", "t", "e", "r">>
        \o <<Underscore>> \o str(i)
DataSelectAll == TextSelect \o <<Underscore>> \o TextAll
DataDeselectAll == TextDeselect \o <<Underscore>> \o TextAll
DataDone == TextDone \o <<Underscore>> \o <<"s", "e", "l", "e", "c", "t", "i", "n", "g">>
DataDpYes == TextDp \o <<Underscore>> \o <<"y", "e", "s">>
DataDpNo == TextDp \o <<Underscore>> \o <<"n", "o">>

\* build_chapter_selection_keyboard(chapters) (main.py:144-163) for page 0:
\* the callback_data of its buttons, row by row.  The chapter lists of the
\* model fit on one page, so the row of "Prev"/"Next" is empty.
build_chapter_selection_keyboard(chapters) ==
    [i \in 1..Len(chapters) |-> DataToggle(i - 1)]
        \o <<DataSelectAll, DataDeselectAll, DataDone>>

\* re.match of the pattern '^(toggle|page|select|done)' of the
\* CallbackQueryHandler of chapter_selection_callback (main.py:286).
match_selection(data) ==
    \E w \in {TextToggle, TextPage, TextSelect, TextDone} : startswith(data, w)

\* re.match of the pattern '^dp_' of handle_default_parser_choice.
match_dp(data) == startswith(data, TextDp \o <<Underscore>>)

\* chapters[k]['selected'] = not chapters[k].get('selected', True) for the
\* chapter at position k, counted from 1
toggle_chapter(chapters, k) ==
    [chapters EXCEPT ![k] = set_selected(@, ~get_selected(@, TRUE))]

\* for chapter in chapters: chapter['selected'] = (data == 'all')
\* (main.py:184)
select_chapters(chapters, all) ==
    [i \in 1..Len(chapters) |-> set_selected(chapters[i], all)]

\* The list of line 188 without its filter.
selected_chapters_all(chapters) == chapters

\* [ch for ch in chapters if ch.get('selected', True)] (main.py:188)
selected_chapters(chapters) ==
    SelectSeq(chapters, LAMBDA ch : get_selected(ch, TRUE))

\* chapter_selection_callback (main.py:174-193) on context.user_data: the
\* chapters it leaves (they are changed in place) and how it ends.  When
\* query.answer() (176) raises (answered = FALSE) the handler ends before
\* it reads the data.
\* int(data) raises ValueError on a text that is no number and the
\* subscript raises IndexError past the end, before anything is changed;
\* the keyboard is shown again for every action (185): when user_data was
\* cleared, ['title'] raises KeyError there, and when the edit raises
\* (shown = FALSE) the handler ends there as well; only then is 'done'
\* looked at (186-193), where the edit of line 187 or the reply of line
\* 190 may raise (replied = FALSE).  "end" is the return of line 191,
\* "process" the call of process_chapters_to_epub of line 192.
chapter_selection_callback(ud, data, answered, shown, replied) ==
    LET action == partition(data).head
        field == partition(data).tail
        chapters == ud.chapters
    IN  IF ~answered
        THEN [chapters |-> chapters, next |-> "raised"]
        ELSE IF action = TextToggle /\ (int_raises(field) \/ int(field) >= Len(chapters))
        THEN [chapters |-> chapters, next |-> "raised"]
        ELSE LET changed ==
                     IF action = TextToggle THEN toggle_chapter(chapters, int(field) + 1)
                     ELSE IF action = TextSelect
                     THEN select_chapters(chapters, field = TextAll)
                     ELSE chapters
             IN  IF ~shown \/ ud = NoUserData
                 THEN [chapters |-> changed, next |-> "raised"]
                 ELSE IF action # TextDone THEN [chapters |-> changed, next |-> "stay"]
                 ELSE IF ~replied THEN [chapters |-> changed, next |-> "raised"]
                 ELSE IF selected_chapters(changed) = <<>>
                 THEN [chapters |-> changed, next |-> "end"]
                 ELSE [chapters |-> changed, next |-> "process"]

\* The exception that ensure_parsers_are_loaded() raises to epub_command:
\* parsers.json is missing or is not JSON (parser.py:130-135), or the save
\* raised out of bulk_write.
ensure_exc(file) ==
    IF file = NoManifest THEN "FileNotFoundError"
    ELSE IF file = BadManifest THEN "JSONDecodeError"
    ELSE "PyMongoError"

\* /epub <url> as the entry point of the conversation (main.py:218-235):
\* it is taken only when no conversation is under way.  Lines 233 and 235
\* pass an argument more (context) than the definitions of parser.py:159
\* and 273 take: with the sources as they are the first call raises
\* TypeError, which line 250 catches, and nothing else runs.  Called with
\* the arguments they take, ensure_parsers_are_loaded runs first and an
\* exception of it skips the listing; else get_chapter_list starts on the
\* store that the call left.
EpubCommand ==
    /\ conv = "END"
    /\ pc = "idle"
    /\ \E u \in ListingUrls, usr \in Users, arity_raises \in BOOLEAN, k \in 0..MaxBatch :
           IF arity_raises
           THEN /\ k = 0
                /\ job_url' = u
                /\ job_user' = usr
                /\ pc' = "raised"
                /\ job_exc' = "TypeError"
                /\ UNCHANGED <<repo_parser, browser, pages_open, storeVars, writeVars>>
           ELSE /\ ensure_call(k)
                /\ IF loader'.raised
                   THEN /\ job_url' = u
                        /\ job_user' = usr
                        /\ pc' = "raised"
                        /\ job_exc' = ensure_exc(manifest_file)
                        /\ UNCHANGED <<repo_parser, browser, pages_open>>
                   ELSE get_chapter_list_start(repo_parsers', u, usr)
    /\ UNCHANGED <<convVars, refreshVars, probeVars, readerVars, envVars,
                   contentVars, page, execVars, fallback_ran, ret>>

\* epub_command after get_chapter_list (main.py:235-254).  An exception of
\* get_chapter_list or of a reply is caught and ends the conversation; one
\* chapter found without a parser goes straight to
\* process_chapters_to_epub; else a keyboard is shown and the conversation
\* waits in CHAPTER_SELECTION.
EpubCommandEnd ==
    /\ pc \in {"returned", "raised"}
    /\ IF pc = "raised" \/ Len(ret.chapters) = 0
       THEN /\ conv' = "END"
            /\ pc' = "idle"
            /\ UNCHANGED <<user_data, c_chapters>>
       ELSE /\ user_data' = [title |-> ret.title, chapters |-> ret.chapters]
            /\ IF Len(ret.chapters) = 1 /\ ~ret.parser_found
               THEN /\ conv' = "END"
                    /\ pc' = "c_call"
                    /\ c_chapters' = ret.chapters
               ELSE /\ \E shown \in BOOLEAN :
                           conv' = IF shown THEN "CHAPTER_SELECTION" ELSE "END"
                    /\ pc' = "idle"
                    /\ UNCHANGED c_chapters
    /\ pressed' = <<>>
    /\ job_url' = NoUrl
    /\ job_user' = 0
    /\ repo_parser' = NoParser
    /\ browser' = "none"
    /\ pages_open' = 0
    /\ page' = NoPage
    /\ exec_out' = NotRun
    /\ exec_script' = ""
    /\ exec_task' = ""
    /\ exec_calls' = <<>>
    /\ fallback_ran' = FALSE
    /\ ret' = NoRet
    /\ job_exc' = ""
    /\ UNCHANGED <<refreshVars, storeVars, probeVars, writeVars, readerVars, envVars,
                   c_i, sections, c_log>>

\* A press of "Yes" or "No": the data is not taken by the pattern of
\* chapter_selection_callback, so handle_default_parser_choice runs
\* (main.py:256-265, 286): "Yes" shows the keyboard of the chapters and
\* stays, whether that raises or not; "No" edits the message, then clears
\* user_data and ends, and changes nothing when the edit raises.
DefaultParserChoice ==
    /\ conv = "CHAPTER_SELECTION"
    /\ pc = "idle"
    /\ \E data \in {DataDpYes, DataDpNo}, edited \in BOOLEAN :
           /\ ~match_selection(data) /\ match_dp(data)
           /\ pressed' = data
           /\ IF data = DataDpYes \/ ~edited
              THEN UNCHANGED <<conv, user_data>>
              ELSE conv' = "END" /\ user_data' = NoUserData
    /\ UNCHANGED <<refreshVars, storeVars, probeVars, writeVars, readerVars, envVars,
                   jobVars, contentVars>>

\* A press of a button of the chapter keyboard while the conversation is
\* in CHAPTER_SELECTION (main.py:286): chapter_selection_callback runs when
\* its pattern matches the data; data that no handler of the state takes
\* changes nothing.  A handler that raises or returns None leaves the
\* conversation in its state.  'done' with no chapter selected returns END;
\* with chapters selected the handler calls process_chapters_to_epub and
\* the conversation stays in CHAPTER_SELECTION until the handler returns.
\* After a /cancel of another conversation cleared user_data the message
\* still shows its keyboard; every press of it then raises.
ChapterSelection ==
    /\ conv = "CHAPTER_SELECTION"
    /\ pc = "idle"
    /\ \E b \in 1..Len(build_chapter_selection_keyboard(user_data.chapters)),
          answered \in BOOLEAN, shown \in BOOLEAN, replied \in BOOLEAN :
           LET data == build_chapter_selection_keyboard(user_data.chapters)[b]
               r == chapter_selection_callback(user_data, data, answered, shown, replied)
           IN  /\ pressed' = data
               /\ IF ~match_selection(data)
                  THEN UNCHANGED <<user_data, conv, pc, c_chapters>>
                  ELSE /\ user_data' = [user_data EXCEPT !.chapters = r.chapters]
                       /\ conv' = IF r.next = "end" THEN "END" ELSE conv
                       /\ pc' = IF r.next = "process" THEN "c_call" ELSE pc
                       /\ c_chapters' = IF r.next = "process"
                                        THEN selected_chapters(r.chapters)
                                        ELSE c_chapters
    /\ UNCHANGED <<refreshVars, storeVars, probeVars, writeVars, readerVars, envVars,
                   job_url, job_user, job_exc, repo_parser, browser, pages_open, page,
                   execVars, fallback_ran, ret, c_i, sections, c_log>>

\* cancel (main.py:133-139), the fallback of the four conversations of
\* main.py:279-299; a /cancel goes to the first of them that is under way.
\* user_data is cleared first, then the reply is sent: when it raises the
\* handler returns nothing and the conversation stays in its state.  The
\* /cancel of another conversation (own = FALSE) clears the same user_data
\* and leaves the state of this one; the conversation of /loadparsers is
\* registered before this one and takes /cancel even in CHAPTER_SELECTION.
Cancel ==
    /\ pc = "idle"
    /\ \E own \in BOOLEAN, replied \in BOOLEAN :
           /\ own => conv = "CHAPTER_SELECTION"
           /\ conv' = IF own /\ replied THEN "END" ELSE conv
    /\ user_data' = NoUserData
    /\ pressed' = <<>>
    /\ UNCHANGED <<refreshVars, storeVars, probeVars, writeVars, readerVars, envVars,
                   jobVars, contentVars>>

\* process_chapters_to_epub up to the loop of create_epub_from_chapters
\* (main.py:195-204, parser.py:322-329): the message of line 199 is sent
\* outside the try, so when it raises (announced = FALSE) the exception
\* leaves the function with nothing fetched; else
\* create_epub_from_chapters launches the browser.
ProcessChapters ==
    /\ pc = "c_call"
    /\ \E announced \in BOOLEAN, launched \in BOOLEAN :
           IF ~announced
           THEN /\ pc' = "idle"
                /\ c_chapters' = <<>>
                /\ UNCHANGED browser
           ELSE /\ IF launched
                   THEN browser' = "open" /\ pc' = "c_loop"
                   ELSE browser' = "none" /\ pc' = "c_raised"
                /\ UNCHANGED c_chapters
    /\ c_i' = 0
    /\ sections' = <<>>
    /\ c_log' = <<>>
    /\ UNCHANGED <<convVars, refreshVars, storeVars, probeVars, writeVars, readerVars,
                   envVars, job_url, job_user, job_exc, repo_parser, pages_open, page,
                   execVars, fallback_ran, ret>>

\* process_chapters_to_epub after create_epub_from_chapters returned or
\* raised (main.py:205-216), and the end of the handler that called it.
\* The document or a message is sent; when the message of the except
\* branch raises (replied = FALSE) the handler raises.
\* chapter_selection_callback returns END (line 193) and, when it raises,
\* leaves the conversation in CHAPTER_SELECTION; epub_command (240-241) is
\* the entry point, which ends the conversation either way.
ProcessChaptersEnd ==
    /\ pc \in {"c_done", "c_raised"}
    /\ \E replied \in BOOLEAN :
           conv' = IF conv = "CHAPTER_SELECTION" /\ ~replied THEN conv ELSE "END"
    /\ pc' = "idle"
    /\ repo_parser' = NoParser
    /\ browser' = "none"
    /\ pages_open' = 0
    /\ page' = NoPage
    /\ exec_out' = NotRun
    /\ exec_script' = ""
    /\ exec_task' = ""
    /\ exec_calls' = <<>>
    /\ c_chapters' = <<>>
    /\ c_i' = 0
    /\ sections' = <<>>
    /\ c_log' = <<>>
    /\ UNCHANGED <<user_data, pressed, refreshVars, storeVars, probeVars, writeVars,
                   readerVars, envVars, job_url, job_user, job_exc, fallback_ran, ret>>

NextConv ==
    \/ EpubCommand
    \/ ListGoto
    \/ ListExec
    \/ ListFallback
    \/ EpubCommandEnd
    \/ DefaultParserChoice
    \/ ChapterSelection
    \/ Cancel
    \/ ProcessChapters
    \/ EpubNext
    \/ EpubGoto
    \/ EpubExec
    \/ EpubRaw
    \/ ProcessChaptersEnd

\* parsers.json as the conversation may find it: missing, not JSON, an
\* empty object, or one entry for A.js.
ConvManifests ==
    {NoManifest, BadManifest, <<>>,
     <<[filename |-> "A.js", domains |-> <<HostAc>>]>>}

\* The process starts with PARSERS_LOADED unset (parser.py:23) and with the
\* repo_parsers collection as an earlier session left it; a store that
\* holds a record is never loaded over, so parsers.json is looked at only
\* with the empty store.  The parsers directory holds A.js.
InitConv ==
    /\ repo_parsers \in ListingRegistries
    /\ PARSERS_LOADED = FALSE
    /\ InitProbe /\ InitWrite /\ InitReader
    /\ custom_parsers = <<>>
    /\ custom_latest = {}
    /\ deps_ok \in BOOLEAN
    /\ InitJob
    /\ corpus = [f \in {"A.js"} |-> "good"] /\ listdir = <<"A.js">>
    /\ scan_pc = "idle"
    /\ parser_files = <<>>
    /\ processed_count = 0
    /\ manifest_data = <<>>
    /\ scan_page = <<>>
    /\ manifest_file \in IF Len(repo_parsers) = 0 THEN ConvManifests ELSE {NoManifest}
    /\ scan_failed = {}
    /\ scan_report = "none"

SpecConv == InitConv /\ [][NextConv]_vars

\* ------------------------------------------------------------------------
\* Specification SpecSelect: the conversation, and chapter_selection_callback
\* entered with chapter lists whose flags are set or cleared
\* ------------------------------------------------------------------------

\* The chapters of those lists: as get_chapter_list returns them, with
\* title, url and the key 'selected' (parser.py:298-302, 316, 318), and
\* the same chapters with the flag cleared.
SelectionPool ==
    {Chapter(TextOne, Url(HostAc, "/1")),
     Chapter(TextTwo, Url(HostXac, "/2")),
     [Chapter(TextOne, Url(HostAc, "/1")) EXCEPT !.selected = FALSE],
     [Chapter(TextTwo, Url(HostXac, "/2")) EXCEPT !.selected = FALSE]}

SelectionLists == SeqsUpTo(SelectionPool, MaxSelection) \ {<<>>}

\* The process as it starts, or a conversation that waits in
\* CHAPTER_SELECTION for a press, user_data holding a title and a chapter
\* list of SelectionLists.  The buttons of the keyboard clear no flag (the
\* data of a toggle button raises ValueError and 'deselect_all' reaches no
\* handler), so a list with a cleared flag is an argument that
\* chapter_selection_callback is called with here, not one a conversation
\* started by /epub hands to it.
InitSelect ==
    \/ InitConv
    \/ /\ repo_parsers \in {<<>>, <<[filename |-> "A.js", domains |-> <<HostAc>>,
                                    script |-> "good"]>>}
       /\ PARSERS_LOADED = (Len(repo_parsers) > 0)
       /\ InitProbe /\ InitWrite /\ InitReader
       /\ custom_parsers = <<>>
       /\ custom_latest = {}
       /\ deps_ok \in BOOLEAN
       /\ InitRun
       /\ conv = "CHAPTER_SELECTION"
       /\ user_data \in {[title |-> TextDoc, chapters |-> chs] : chs \in SelectionLists}
       /\ pressed = <<>>
       /\ corpus = [f \in {"A.js"} |-> "good"] /\ listdir = <<"A.js">>
       /\ scan_pc = "idle"
       /\ parser_files = <<>>
       /\ processed_count = 0
       /\ manifest_data = <<>>
       /\ scan_page = <<>>
       /\ manifest_file = IF Len(repo_parsers) = 0 THEN <<>> ELSE NoManifest
       /\ scan_failed = {}
       /\ scan_report = "none"

SpecSelect == InitSelect /\ [][NextConv]_vars

\* ------------------------------------------------------------------------
\* Specification SpecRefresh: the scan of the script corpus,
\* generate_parsers_manifest (parser.py:50-115)
\* ------------------------------------------------------------------------

\* What a script file does when the scan page loads it: its statements in
\* order, each a call of parserFactory.register with a string, an array or
\* nothing usable as domains, or a statement that throws.  An uncaught
\* exception ends the script; it does not fail page.goto.
Register(k, ds) == [op |-> "register", kind |-> k, domains |-> ds]
Throw == [op |-> "throw", kind |-> "", domains |-> <<>>]

ScriptStmts(script) ==
    CASE script = "declA" -> <<Register("array", <<HostAc>>)>>
      [] script = "declNone" -> <<>>
      [] script = "declEmpty" -> <<Register("array", <<>>)>>
      [] script = "declOther" -> <<Register("other", <<>>)>>
      [] script = "throwFirst" -> <<Throw, Register("array", <<HostXac>>)>>
      [] script = "declThenThrow" -> <<Register("array", <<HostXac>>), Throw>>
      [] script = "declString" ->
             <<Register("string", <<HostAc>>), Register("array", <<HostXac>>)>>

CorpusScripts ==
    {"declA", "declNone", "declEmpty", "declOther", "throwFirst",
     "declThenThrow", "declString"}

\* window.registeredDomains after the statements ran with the register hook
\* of parser.py:91.
RECURSIVE registered_domains(_)
registered_domains(stmts) ==
    IF Len(stmts) = 0 THEN <<>>
    ELSE IF Head(stmts).op = "throw" THEN <<>>
    ELSE IF Head(stmts).kind \in {"string", "array"}
         THEN Head(stmts).domains \o registered_domains(Tail(stmts))
         ELSE registered_domains(Tail(stmts))

\* The names in the parsers directory besides the three scripts.
ExtraFiles == {{}, {"Template.js"}, {"notes.md"}}

\* The progress message is sent on every turn of the loop whose number is
\* a multiple of this (parser.py:82).
ProgressEvery == 10

\* The scripts of a parsers directory with as many of them as it takes for
\* a progress message.
ManyFiles ==
    <<"A.js", "B.js", "C.js", "D.js", "E.js", "F.js", "G.js", "H.js", "I.js", "J.js">>

\* Orders that directory is listed in here: by name, by name backwards and
\* in an order of the hashes of the names.
ManyListings ==
    {ManyFiles,
     [i \in 1..Len(ManyFiles) |-> ManyFiles[Len(ManyFiles) + 1 - i]],
     <<"F.js", "B.js", "J.js", "C.js", "E.js", "H.js", "G.js", "I.js", "D.js", "A.js">>}

\* f.endswith('.js')
endswith_js(f) ==
    f \in Filenames \cup {"Template.js"} \cup {ManyFiles[i] : i \in 1..Len(ManyFiles)}

\* The filter of parser.py:69 over the directory listing, which keeps the
\* order of the listing.
parser_files_of(listing) ==
    SelectSeq(listing, LAMBDA f : endswith_js(f) /\ f # "Template.js")

\* The orders os.listdir may list the names S in: any order.
ListingOrders(S) ==
    {o \in [1..Cardinality(S) -> S] : \A i, j \in DOMAIN o : i # j => o[i] # o[j]}

\* manifest_data[filename] = domains, on a dict kept in insertion order.
manifest_set(manifest, filename, domains) ==
    IF \E i \in 1..Len(manifest) : manifest[i].filename = filename
    THEN [i \in 1..Len(manifest) |->
             IF manifest[i].filename = filename
             THEN [filename |-> filename, domains |-> domains]
             ELSE manifest[i]]
    ELSE Append(manifest, [filename |-> filename, domains |-> domains])

\* generate_parsers_manifest up to the loop (parser.py:55-78).  Nothing
\* tests CHROME_EXECUTABLE_PATH here: when p.chromium.launch() or
\* browser.new_page() raises (lines 77-78) the exception ends the task of
\* main.py:102 with no file scanned and no further message.  An edit_text
\* that raises (lines 55, 61, 66) ends the task as well, with the message
\* before it still shown.
ScanStart ==
    /\ scan_pc = "idle"
    /\ \E started \in BOOLEAN, dir_ok \in BOOLEAN, opened \in BOOLEAN, edited \in BOOLEAN :
           IF ~started
           THEN /\ scan_pc' = "aborted"
                /\ UNCHANGED <<scan_report, parser_files>>
           ELSE IF ~dir_ok \/ ~deps_ok
           THEN /\ scan_pc' = "aborted"
                /\ scan_report' = IF edited THEN "error" ELSE "started"
                /\ UNCHANGED parser_files
           ELSE IF ~opened
           THEN /\ scan_pc' = "aborted"
                /\ scan_report' = "started"
                /\ UNCHANGED parser_files
           ELSE /\ parser_files' = parser_files_of(listdir)
                /\ scan_pc' = "scanning"
                /\ scan_report' = "started"
    /\ UNCHANGED <<corpus, listdir, processed_count, manifest_data, scan_page, manifest_file, scan_failed>>
    /\ UNCHANGED <<convVars, contentVars, storeVars, probeVars, writeVars, readerVars, envVars, jobVars>>

\* page.goto(data_url) (parser.py:91-93): a new document, whose first
\* script sets registeredDomains to [] before the parser script runs.
page_goto(registered, stmts) == registered_domains(stmts)

\* One turn of the loop (parser.py:80-103).  On every turn whose number is
\* a multiple of ProgressEvery the progress message is sent first (82-83),
\* outside the try: when that edit_text raises, the exception ends the
\* task with the file not looked at and no later file taken.  Then the try
\* block raises before the page has the new document (the file cannot be
\* read, page.goto fails early), raises after it (page.goto times out on a
\* loaded document, page.evaluate fails), runs to its end, or never ends:
\* page.evaluate (94) has no timeout and does not return while the
\* document keeps the page busy.
ScanFile ==
    /\ scan_pc = "scanning"
    /\ processed_count < Len(parser_files)
    /\ processed_count' = processed_count + 1
    /\ LET filename == parser_files[processed_count + 1]
           loaded == page_goto(scan_page, ScriptStmts(corpus[filename]))
           progress == (processed_count + 1) % ProgressEvery = 0
       IN  \E edited \in BOOLEAN, raised \in {"no", "before", "after", "never"} :
               IF progress /\ ~edited
               THEN /\ scan_pc' = "aborted"
                    /\ UNCHANGED <<scan_report, scan_failed, scan_page, manifest_data>>
               ELSE /\ scan_report' = IF progress THEN "progress" ELSE scan_report
                    /\ IF raised = "never"
                       THEN /\ scan_pc' = "hung"
                            /\ scan_page' = loaded
                            /\ UNCHANGED <<scan_failed, manifest_data>>
                       ELSE IF raised # "no"
                       THEN /\ scan_failed' = scan_failed \cup {filename}
                            /\ scan_page' = IF raised = "before" THEN scan_page ELSE loaded
                            /\ UNCHANGED <<scan_pc, manifest_data>>
                       ELSE /\ scan_page' = loaded
                            /\ manifest_data' =
                                   IF Len(loaded) > 0
                                   THEN manifest_set(manifest_data, filename, loaded)
                                   ELSE manifest_data
                            /\ UNCHANGED <<scan_pc, scan_failed>>
    /\ UNCHANGED <<corpus, listdir, parser_files, manifest_file>>
    /\ UNCHANGED <<convVars, contentVars, storeVars, probeVars, writeVars, readerVars, envVars, jobVars>>

\* After the loop, up to the next await (parser.py:105-111, 113, 115):
\* the browser is closed and parsers.json is written when the manifest has
\* entries.  open(manifest_path, 'w') raises and leaves the file as it
\* was, or it truncates the file and json.dump raises part-way (the file
\* holds text json.load rejects), or the file is written.  The task then
\* waits for the edit_text of its report, with the message before it still
\* shown.
ScanWrite ==
    /\ scan_pc = "scanning"
    /\ processed_count = Len(parser_files)
    /\ IF Len(manifest_data) > 0
       THEN \E outcome \in {"written", "open raised", "dump raised"} :
                /\ manifest_file' =
                       IF outcome = "open raised" THEN manifest_file
                       ELSE IF outcome = "dump raised" THEN BadManifest
                       ELSE manifest_data
                /\ scan_pc' = IF outcome = "written" THEN "written" ELSE "write raised"
       ELSE /\ UNCHANGED manifest_file
            /\ scan_pc' = "nothing written"
    /\ UNCHANGED <<corpus, listdir, parser_files, processed_count, manifest_data, scan_page,
                   scan_failed, scan_report>>
    /\ UNCHANGED <<convVars, contentVars, storeVars, probeVars, writeVars, readerVars, envVars, jobVars>>

\* The report of the scan (parser.py:111, 113, 115) and the end of the
\* task.  The edit_text of line 111 is inside the try, so when it raises
\* after the write line 113 reports the error with the file written.  When
\* the edit_text of line 113 or 115 raises, the task ends with the message
\* before it still shown.
ScanFinish ==
    /\ scan_pc \in {"written", "write raised", "nothing written"}
    /\ scan_pc' = "done"
    /\ \E edited \in BOOLEAN, edited_error \in BOOLEAN :
           scan_report' =
               IF scan_pc = "written"
               THEN IF edited THEN "success"
                    ELSE IF edited_error THEN "error" ELSE scan_report
               ELSE IF scan_pc = "write raised"
               THEN IF edited_error THEN "error" ELSE scan_report
               ELSE IF edited THEN "warning" ELSE scan_report
    /\ UNCHANGED <<corpus, listdir, parser_files, processed_count, manifest_data, scan_page,
                   scan_failed, manifest_file>>
    /\ UNCHANGED <<convVars, contentVars, storeVars, probeVars, writeVars, readerVars, envVars, jobVars>>

\* The parsers directory holds three scripts and perhaps one more file,
\* listed in any order, or it holds the scripts of ManyFiles, each
\* registering a domain, listed in one of ManyListings.
InitRefresh ==
    /\ InitStore /\ InitProbe /\ InitWrite /\ InitReader /\ InitJob
    /\ custom_parsers = <<>>
    /\ custom_latest = {}
    /\ deps_ok \in BOOLEAN
    /\ \/ \E scripts \in [Filenames -> CorpusScripts], extra \in ExtraFiles :
              corpus = [f \in Filenames \cup extra |->
                           IF f \in Filenames THEN scripts[f] ELSE "declA"]
       \/ corpus = [f \in {ManyFiles[i] : i \in 1..Len(ManyFiles)} |-> "declA"]
    /\ IF DOMAIN corpus = {ManyFiles[i] : i \in 1..Len(ManyFiles)}
       THEN listdir \in ManyListings
       ELSE listdir \in ListingOrders(DOMAIN corpus)
    /\ scan_pc = "idle"
    /\ parser_files = <<>>
    /\ processed_count = 0
    /\ manifest_data = <<>>
    /\ scan_page = <<>>
    /\ manifest_file = NoManifest
    /\ scan_failed = {}
    /\ scan_report = "none"

NextRefresh == ScanStart \/ ScanFile \/ ScanWrite \/ ScanFinish

SpecRefresh == InitRefresh /\ [][NextRefresh]_vars

\* The event loop resumes the scan after each await that completed or
\* raised: page.goto is bounded by its 15 s timeout.  An await that never
\* completes leaves no step to take.
SpecRefreshLive == SpecRefresh /\ WF_vars(NextRefresh)

\* ------------------------------------------------------------------------
\* Claims about the Domain Resolver
\* ------------------------------------------------------------------------

\* The domain d is what remains of h after dropping one or more leading
\* labels, with at least 2 labels remaining.
IsParentSuffix(d, h) ==
    LET parts == split(h)
    IN  \E k \in 1..(Len(parts) - 2) : d = join(SubSeq(parts, k + 1, Len(parts)))

\* h and d differ only by a leading 'www.'
WwwToggled(d, h) == h = WwwDot \o d \/ d = WwwDot \o h

\* The matching rule of the spec (4.1, steps 2-4).
RuleMatches(d, h) == h = d \/ WwwToggled(d, h) \/ IsParentSuffix(d, h)

\* Some record of the registry carries a domain the rule matches with h.
SomeRecordMatches(coll, h) ==
    \E i \in 1..Len(coll) :
        \E k \in 1..Len(coll[i].domains) : RuleMatches(coll[i].domains[k], h)

\* The last call had a hostname.
Resolved == res_url # NoUrl /\ hostname_of(res_url) # NoHost

\* C1: whenever some record has a domain equal to the hostname, differing
\* from it only by a leading 'www.', or equal to a parent suffix of it with
\* at least 2 labels, get_repo_parser returns a record.
C1_ResolveFindsRecord ==
    (Resolved /\ SomeRecordMatches(repo_parsers, hostname_of(res_url)))
        => res_out # NoParser

\* A record was returned for a hostname that only the parent-domain walk
\* relates to it (m.wuxiaworld.com -> wuxiaworld.com).
C1_Witness ==
    /\ Resolved
    /\ res_out # NoParser
    /\ \E k \in 1..Len(res_out.domains) :
           IsParentSuffix(res_out.domains[k], hostname_of(res_url))
    /\ \A i \in 1..Len(repo_parsers) : \A k \in 1..Len(repo_parsers[i].domains) :
           LET d == repo_parsers[i].domains[k]
           IN  d # hostname_of(res_url) /\ ~WwwToggled(d, hostname_of(res_url))

\* C2: when no record has a domain that the rule matches with the hostname,
\* get_repo_parser returns none, whatever substrings the domains share with
\* the hostname.
C2_NoSubstringMatch ==
    (Resolved /\ ~SomeRecordMatches(repo_parsers, hostname_of(res_url)))
        => res_out = NoParser

\* ------------------------------------------------------------------------
\* Claims about the Parser Store
\* ------------------------------------------------------------------------

\* C7: a save_parsers_from_repo call that repeats the batch of the save just
\* before it leaves the collection (and so its count) as it was and returns 0.
C7_UpsertIdempotent ==
    repeated => (repo_parsers = snap_old /\ Len(repo_parsers) = Len(snap_old) /\ op_ret = 0)

\* A batch that changed the store was saved a second time.
C7_Witness ==
    /\ repeated
    /\ Len(op_batch) = MaxBatch
    /\ op_ret = 0
    /\ \E i \in 1..Len(op_batch) : HasDomain(repo_parsers[i], op_batch[i].domains[1])

\* C8: what a get_repo_parser call reads is the whole collection of before
\* the latest registry replacement or the whole new set of records, never
\* an empty or partly filled collection in between.
C8_ReplaceAtomic ==
    seen # NotSeen => seen \in {snap_old, snap_new}

\* A job that was running when a replacement of a non-empty registry by
\* other records returned has read the new registry.
ReadAfterReplacement ==
    /\ overlap
    /\ op = "load"
    /\ seen = snap_new
    /\ snap_old # <<>>
    /\ snap_new # snap_old

\* A job that was running when the save of a replacement raised has read
\* a registry that is neither the old one nor the new one.
ReadAfterFailedReplacement ==
    /\ overlap
    /\ op = "load failed"
    /\ seen # NotSeen
    /\ seen \notin {snap_old, snap_new}

\* ------------------------------------------------------------------------
\* Claims about the listing phase
\* ------------------------------------------------------------------------

\* The job went past page.goto and ended, by a return or an exception.
EndedAfterGoto == pc \in {"returned", "raised"} /\ page # NoPage

\* Execute returned Error, or Chapters with zero items.
ReturnedErrorOrEmpty ==
    /\ exec_out.status = "return"
    /\ \/ exec_out.result.kind = "error"
       \/ exec_out.result.kind = "chapters" /\ Len(exec_out.result.chapters) = 0

\* Execute returned Chapters with a non-empty item list.
ReturnedChapters ==
    /\ exec_out.status = "return"
    /\ exec_out.result.kind = "chapters"
    /\ Len(exec_out.result.chapters) > 0

\* C3: in a listing phase that rendered the page and ended, the fallback
\* extractor ran exactly when no record resolved, or Execute returned Error,
\* or Execute returned Chapters with zero items; and a Chapters result with
\* a non-empty item list is accepted: the phase returns it with
\* parser_found and without running the fallback.
C3_FallbackExactlyWhen ==
    EndedAfterGoto =>
        /\ fallback_ran <=> (repo_parser = NoParser \/ ReturnedErrorOrEmpty)
        /\ ReturnedChapters =>
               (pc = "returned" /\ ret.parser_found /\ ~fallback_ran)

\* C4: a script that throws during registration or inside a capability
\* makes run_parser_in_browser return an Error result; nothing is raised
\* into the caller.
C4_ThrowYieldsError ==
    (deps_ok /\ exec_script \in ThrowingScripts /\ exec_out # NotRun
        /\ exec_out.exc # "TimeoutError") =>
        exec_out = Returned(ErrorResult("crashed"))

\* The page function of the listing phase ran to its end, and no call of
\* set_result arrived within the 30 s.
NoCallbackInTime ==
    /\ deps_ok
    /\ exec_out # NotRun
    /\ page_evaluate(exec_script, "getChapters", Document(page)).status = "sent"
    /\ exec_calls = <<>>

\* C11: when no callback arrives before the timeout, run_parser_in_browser
\* returns an Error result to its caller; it does not raise.
C11_TimeoutYieldsError ==
    NoCallbackInTime => (exec_out.status = "return" /\ exec_out.result.kind = "error")

\* C12: every call of run_parser_in_browser that the listing phase makes
\* completes, by a result or by an exception.
C12_ExecuteCompletes == (pc = "exec") ~> (exec_out.status \in {"return", "raise"})

\* C13: the result run_parser_in_browser returns is the one of the first
\* call of set_result; later calls change nothing and raise nothing.
C13_FirstCallbackWins ==
    (exec_out # NotRun /\ Len(exec_calls) > 0
        /\ page_evaluate(exec_script, "getChapters", Document(page)).status = "sent") =>
        exec_out = Returned(exec_calls[1])

\* Two calls of set_result with different results arrived in one call of
\* run_parser_in_browser, which returned the first.
C13_Witness ==
    /\ Len(exec_calls) = 2
    /\ exec_calls[1] # exec_calls[2]
    /\ exec_out = Returned(exec_calls[1])

\* C5: whenever get_chapter_list returns, the chapter list it returns is
\* not empty.
C5_ReturnsNonEmpty == pc = "returned" => Len(ret.chapters) > 0

\* The script threw inside getChapters, Execute returned Error, and the
\* phase returned through the fallback.
C5_Witness ==
    /\ pc = "returned"
    /\ exec_script = "listThrows"
    /\ exec_out = Returned(ErrorResult("crashed"))
    /\ fallback_ran
    /\ Len(ret.chapters) > 0

\* The anchors of the page, by position, whose text matches the
\* chapter-indicator pattern.
MatchingAnchors == {i \in 1..Len(page.anchors) : chapter_pattern(lower(page.anchors[i].text))}

\* Those of them that carry an href attribute.
MatchingLinks == {i \in MatchingAnchors : page.anchors[i].href.kind # "none"}

\* The k-th smallest element of the set S of positions.
KthOf(S, k) == CHOOSE i \in S : Cardinality({j \in S : j < i}) = k - 1

\* The returned chapters are the single synthetic chapter when S is empty,
\* and otherwise the anchors at the positions S, in document order, with the
\* stripped text, the href resolved against the job's URL, and selected.
ChaptersAreAnchors(S) ==
    IF S = {}
    THEN ret.chapters = <<Chapter(TextFullPage, job_url)>>
    ELSE /\ Len(ret.chapters) = Cardinality(S)
         /\ \A k \in 1..Len(ret.chapters) :
                LET a == page.anchors[KthOf(S, k)]
                IN  /\ ret.chapters[k].title = strip(a.text)
                    /\ ret.chapters[k].url = urljoin(job_url, a.href)
                    /\ ret.chapters[k].selected

\* C6, as stated: the fallback returns the synthetic chapter when no anchor
\* text matches the pattern, and otherwise exactly the matching anchors in
\* document order.
C6_FallbackAllAnchors ==
    (pc = "returned" /\ fallback_ran) => ChaptersAreAnchors(MatchingAnchors)

\* C6, amended: the same with the anchors that carry an href attribute, the
\* only ones the extractor looks at.
C6_FallbackLinks ==
    (pc = "returned" /\ fallback_ran) => ChaptersAreAnchors(MatchingLinks)

\* The fallback returned several of the anchors of a page on which one
\* matching anchor has no href.
C6_Witness ==
    /\ pc = "returned"
    /\ fallback_ran
    /\ MatchingLinks # MatchingAnchors
    /\ Len(ret.chapters) = Cardinality(MatchingLinks)
    /\ MatchingLinks # {}

\* The fallback returned the synthetic chapter.
C6_WitnessSynthetic ==
    /\ pc = "returned"
    /\ fallback_ran
    /\ MatchingLinks = {}
    /\ ret.chapters = <<Chapter(TextFullPage, job_url)>>

\* C10: when the user of a job has a custom parser for the job's URL, the
\* script the job executes is that custom parser's, whatever the shared
\* registry holds.
C10_CustomShadowsShared ==
    LET custom == get_custom_parser(custom_parsers, job_user, job_url)
    IN  (pc = "returned" /\ custom # NoCustom) => exec_script = custom.script

\* ------------------------------------------------------------------------
\* Claims about the Batch Registry Refresh
\* ------------------------------------------------------------------------

\* The domains a script declares: those of every register call in it.
RECURSIVE declared_domains(_)
declared_domains(stmts) ==
    IF Len(stmts) = 0 THEN <<>>
    ELSE (IF Head(stmts).op = "register" /\ Head(stmts).kind \in {"string", "array"}
          THEN Head(stmts).domains ELSE <<>>) \o declared_domains(Tail(stmts))

\* The discovery of the file failed: the script threw, or the scan's try
\* block raised.
DiscoveryFailed(f) ==
    \/ f \in scan_failed
    \/ \E i \in 1..Len(ScriptStmts(corpus[f])) : ScriptStmts(corpus[f])[i].op = "throw"

InManifest(f) == \E i \in 1..Len(manifest_data) : manifest_data[i].filename = f

\* C9: when the scan is over, the manifest holds an entry for a scanned
\* script exactly when the script declared at least one domain and its
\* discovery did not fail, and no more entries than the corpus has scripts.
C9_EntryIffDeclared ==
    scan_pc = "done" =>
        /\ \A i \in 1..Len(parser_files) :
               LET f == parser_files[i]
               IN  InManifest(f) <=>
                       (Len(declared_domains(ScriptStmts(corpus[f]))) > 0
                            /\ ~DiscoveryFailed(f))
        /\ Len(manifest_data) <= Len(parser_files)

\* ------------------------------------------------------------------------
\* Claims about the Script Execution Engine in both phases
\* ------------------------------------------------------------------------

\* run_parser_in_browser was called with a script that never calls the
\* registration hook.
NoRegistration == exec_out # NotRun /\ ScriptRegs(exec_script) = <<>>

\* C14: for a script that never calls the registration hook, whatever the
\* task, run_parser_in_browser does not hang, returns nothing but the Error
\* 'no parser', and returns it whenever the library files are there and
\* the callback arrives.
C14_NoHandlerIsError ==
    NoRegistration =>
        /\ exec_out.status # "hang"
        /\ exec_out.status = "return" => exec_out.result = ErrorResult("no parser")
        /\ (deps_ok /\ exec_calls # <<>>) => exec_out.status = "return"

\* The content phase ran such a script and got the Error.
C14_Witness ==
    /\ NoRegistration
    /\ exec_task = "getContent"
    /\ exec_out = Returned(ErrorResult("no parser"))

\* The listing phase ran such a script and got the Error.
C14_WitnessListing ==
    /\ NoRegistration
    /\ exec_task = "getChapters"
    /\ exec_out = Returned(ErrorResult("no parser"))

\* The handler the executed script left active does not identify the URL
\* as a chapter page: isChapterUrl is missing or returns false.
NotAChapterPage ==
    /\ exec_out # NotRun
    /\ LET reg == eval_script(ScriptRegs(exec_script), "")
       IN  /\ reg.thrown = ""
           /\ reg.active # ""
           /\ Handler(reg.active).isChapterUrl \in {"false", "absent"}

\* C15: for the task getContent and a handler that does not identify the
\* URL as a chapter page, run_parser_in_browser returns nothing but an
\* Error, and getContent is not invoked: the call does not hang on a
\* getContent that never finishes.
C15_NotChapterIsError ==
    (exec_task = "getContent" /\ NotAChapterPage) =>
        /\ exec_out.status # "hang"
        /\ exec_out.status = "return" => exec_out.result.kind = "error"
        /\ (deps_ok /\ exec_calls # <<>>) => exec_out.status = "return"
        /\ (exec_out.status = "return" /\ ScriptCallbacks(exec_script) = <<>>) =>
               exec_out.result = ErrorResult("not chapter")

\* The handler's getContent never finishes, and the Error was returned.
C15_Witness ==
    /\ exec_task = "getContent"
    /\ exec_script = "notChapterHangs"
    /\ exec_out = Returned(ErrorResult("not chapter"))

\* ------------------------------------------------------------------------
\* Claims about the content phase
\* ------------------------------------------------------------------------

\* The log entry of the chapter at position p, which has one.
EntryOf(p) == c_log[CHOOSE k \in 1..Len(c_log) : c_log[k].pos = p]

\* A record resolved for the chapter and Execute returned a Content result.
GotContent(entry) ==
    /\ entry.found
    /\ entry.out.status = "return"
    /\ entry.out.result.kind = "content"

\* C16: the content of a section is the script's html only when a record
\* resolved and Execute returned a Content result, and then it is that
\* result's html; on every other outcome it is the raw markup of the
\* rendered page.
C16_ContentOrRawMarkup ==
    \A k \in 1..Len(sections) :
        LET entry == EntryOf(sections[k].file_name)
            body == sections[k].content.body
            url == c_chapters[sections[k].file_name].url
        IN  /\ body.source = "script" =>
                   (GotContent(entry) /\ body = entry.out.result.html)
            /\ ~GotContent(entry) => body = Html("raw", url)

\* One section holds the script's html, and another the raw markup after
\* Execute failed for a resolved record.
C16_Witness ==
    /\ \E k \in 1..Len(sections) : sections[k].content.body.source = "script"
    /\ \E k \in 1..Len(sections) :
           /\ EntryOf(sections[k].file_name).found
           /\ EntryOf(sections[k].file_name).out.status \in {"return", "raise"}
           /\ sections[k].content.body.source = "raw"

\* The positions whose navigation failed.
NavigationFailed == {c_log[k].pos : k \in {j \in 1..Len(c_log) :
                                              c_log[j].what = "navigation failed"}}

\* C17: a chapter whose navigation failed has no section, the content
\* phase does not end with an exception at that chapter, and a content
\* phase that ended normally has taken every selected chapter.
C17_NavigationFailureSkips ==
    /\ \A p \in NavigationFailed :
           /\ \A k \in 1..Len(sections) : sections[k].file_name # p
           /\ ~(pc = "c_raised" /\ c_i = p)
    /\ pc = "c_done" =>
           \A i \in 1..Len(c_chapters) :
               get_selected(c_chapters[i], FALSE)
                   => \E k \in 1..Len(c_log) : c_log[k].pos = i

\* The content phase ended normally with a section for a chapter that
\* comes after one whose navigation failed.
C17_Witness ==
    /\ pc = "c_done"
    /\ \E p \in NavigationFailed :
           \E k \in 1..Len(sections) : sections[k].file_name > p

\* The positions of the selected chapters that were not skipped.
KeptPositions ==
    {i \in 1..Len(c_chapters) :
        /\ get_selected(c_chapters[i], FALSE)
        /\ \A k \in 1..Len(c_log) : c_log[k].pos = i => c_log[k].what = "section"}

\* C18: when the content phase ends normally, the sections are the selected
\* chapters that were not skipped, once each and in the order of the
\* chapter list, each with its chapter's title and that title as <h1>.
C18_SectionsInSelectionOrder ==
    pc = "c_done" =>
        /\ Len(sections) = Cardinality(KeptPositions)
        /\ \A k \in 1..Len(sections) :
               LET p == KthOf(KeptPositions, k)
               IN  /\ sections[k].file_name = p
                   /\ sections[k].title = c_chapters[p].title
                   /\ sections[k].content.h1 = c_chapters[p].title

\* Three chapters were handed in, one of them was skipped or not selected,
\* and the two others are the sections.
C18_Witness ==
    /\ pc = "c_done"
    /\ Len(c_chapters) = 3
    /\ Len(sections) = 2
    /\ sections[1].title # sections[2].title

\* C19: whenever get_chapter_list or create_epub_from_chapters has
\* terminated, by a return or by an exception, the browser it launched is
\* not open and no page is open.
C19_SessionReleased ==
    pc \in {"returned", "raised", "c_done", "c_raised"} =>
        (browser # "open" /\ pages_open = 0)

\* The content phase ended with the exception of browser.new_page() after
\* it had launched the browser.
C19_Witness ==
    /\ pc = "c_raised"
    /\ c_i > 0
    /\ browser = "closed"

\* ------------------------------------------------------------------------
\* Claims about registry loads that fail
\* ------------------------------------------------------------------------

\* C20: after a registry load whose save step failed, the Parser Store
\* holds the snapshot it held before the load or the complete new one.
C20_LoadNeverPartial ==
    op = "load failed" => repo_parsers \in {snap_old, snap_new}

\* ------------------------------------------------------------------------
\* Claims about fatal preconditions of the listing phase
\* ------------------------------------------------------------------------

\* C21: when the support scripts cannot be loaded and a record resolved for
\* the URL, a listing phase that rendered the page ends by raising to its
\* caller, and the fallback extractor does not run.
C21_MissingDepsIsFatal ==
    (EndedAfterGoto /\ ~deps_ok /\ repo_parser # NoParser) =>
        (pc = "raised" /\ ~fallback_ran)

\* get_chapter_list raised the IOError of a failed navigation.
RootNavigationFailed == job_exc = "IOError"

\* C22: when navigation to the root URL fails, get_chapter_list ends by
\* raising to its caller with no chapter list, having run neither the
\* parser nor the generic scraping; and the next step of the conversation
\* is its end, with no call of create_epub_from_chapters.
C22_RootNavigationFailureIsFatal ==
    /\ [](RootNavigationFailed =>
            /\ pc = "raised"
            /\ ret = NoRet
            /\ exec_out = NotRun
            /\ ~fallback_ran)
    /\ [][RootNavigationFailed =>
            (conv' = "END" /\ pc' = "idle" /\ c_chapters' = <<>>)]_vars

\* A navigation to the root URL failed for a URL that a record resolves,
\* and the job stands at the raise.
C22_Witness ==
    /\ RootNavigationFailed
    /\ pc = "raised"
    /\ repo_parser # NoParser
    /\ page = NoPage

\* ------------------------------------------------------------------------
\* Claims about the custom store
\* ------------------------------------------------------------------------

\* The documents of the custom store for one user and target.
CustomDocs(u, t) ==
    {i \in 1..Len(custom_parsers) :
        custom_parsers[i].user_id = u /\ custom_parsers[i].target_url = t}

\* C23: after any sequence of add_custom_parser calls the custom store
\* holds at most one document per (user, target), and get_custom_parser
\* returns for each pair the script of the latest add for that pair (and
\* nothing for a pair never added), whatever was added for other pairs.
C23_CustomUpsertLastWins ==
    \A u \in Users, t \in CustomKeys :
        /\ Cardinality(CustomDocs(u, t)) <= 1
        /\ \A e \in custom_latest :
               (e.user_id = u /\ e.target_url = t) =>
                   get_custom_parser(custom_parsers, u, t).script = e.script
        /\ (~\E e \in custom_latest : e.user_id = u /\ e.target_url = t) =>
               get_custom_parser(custom_parsers, u, t) = NoCustom

\* A pair was added more than once, its document stands first in a store
\* of several documents and holds the script of its latest add.
C23_Witness ==
    /\ Len(custom_parsers) >= 2
    /\ \E e \in custom_latest :
           /\ e.replaced
           /\ custom_parsers[1].user_id = e.user_id
           /\ custom_parsers[1].target_url = e.target_url
           /\ custom_parsers[1].script = e.script
           /\ e.script = "empty"

\* ------------------------------------------------------------------------
\* More claims about the Parser Store
\* ------------------------------------------------------------------------

\* C24: in every state of the Parser Store, after any sequence of saves,
\* clears and loads, no two records carry the same filename.
C24_FilenameUnique == DistinctFilenames(repo_parsers)

\* A save found a record of a filename it was handed, with other content,
\* in a store of two records, and wrote over it.
C24_Witness ==
    /\ op = "save"
    /\ Len(repo_parsers) = 2
    /\ Len(snap_old) = 2
    /\ \E i \in 1..2 :
           /\ repo_parsers[i].filename = snap_old[i].filename
           /\ repo_parsers[i] # snap_old[i]

\* ------------------------------------------------------------------------
\* More claims about the Domain Resolver
\* ------------------------------------------------------------------------

\* Some record of the registry carries the domain d.
SomeRecordHas(coll, d) == \E i \in 1..Len(coll) : HasDomain(coll[i], d)

\* The hostname with its leading 'www.' dropped, or with 'www.' put before
\* it when it has none.
Toggled(h) == IF startswith(h, WwwDot) THEN SliceFrom(h, 4) ELSE WwwDot \o h

\* What remains of h after dropping its n leftmost labels.
Remainder(h, n) == join(SubSeq(split(h), n + 1, Len(split(h))))

\* The numbers of labels the parent-domain walk may drop from h.
Drops(h) == 1..(Len(split(h)) - 2)

\* C25: the steps are tried in priority order and the first hit wins: a
\* record carrying the hostname itself is returned before any other; failing
\* that, a record carrying the 'www.'-toggled hostname before any parent
\* match; failing that, a record carrying the longest remainder of the
\* parent-domain walk that some record carries.
C25_PriorityOrder ==
    Resolved =>
        LET h == hostname_of(res_url)
            exact == SomeRecordHas(repo_parsers, h)
            www == SomeRecordHas(repo_parsers, Toggled(h))
        IN  /\ exact => HasDomain(res_out, h)
            /\ (~exact /\ www) => HasDomain(res_out, Toggled(h))
            /\ \A n \in Drops(h) :
                   (/\ ~exact /\ ~www
                    /\ SomeRecordHas(repo_parsers, Remainder(h, n))
                    /\ \A m \in 1..(n - 1) :
                           ~SomeRecordHas(repo_parsers, Remainder(h, m)))
                       => HasDomain(res_out, Remainder(h, n))

\* Two records match the hostname at two depths of the parent-domain walk
\* and no record matches it at an earlier step; the one of the longer
\* remainder was returned.
C25_Witness ==
    /\ Resolved
    /\ LET h == hostname_of(res_url)
       IN  /\ Len(split(h)) = 4
           /\ ~SomeRecordHas(repo_parsers, h)
           /\ ~SomeRecordHas(repo_parsers, Toggled(h))
           /\ SomeRecordHas(repo_parsers, Remainder(h, 1))
           /\ SomeRecordHas(repo_parsers, Remainder(h, 2))
           /\ HasDomain(res_out, Remainder(h, 1))
           /\ ~HasDomain(res_out, Remainder(h, 2))

\* One record carries the 'www.'-toggled hostname and another a parent of
\* it; the first was returned.
C25_WitnessWww ==
    /\ Resolved
    /\ LET h == hostname_of(res_url)
       IN  /\ ~startswith(h, WwwDot)
           /\ ~SomeRecordHas(repo_parsers, h)
           /\ \E n \in Drops(h) : SomeRecordHas(repo_parsers, Remainder(h, n))
           /\ HasDomain(res_out, Toggled(h))

\* One record carries the hostname and another the 'www.'-toggled hostname;
\* the first was returned.
C25_WitnessExact ==
    /\ Resolved
    /\ LET h == hostname_of(res_url)
       IN  /\ SomeRecordHas(repo_parsers, Toggled(h))
           /\ HasDomain(res_out, h)
           /\ ~HasDomain(res_out, Toggled(h))

\* The record carries one domain only, of a single label, and the hostname
\* has several labels of which that one is the last.
SingleLabelOf(rec, h) ==
    /\ Len(rec.domains) = 1
    /\ Len(split(rec.domains[1])) = 1
    /\ Len(split(h)) >= 2
    /\ split(h)[Len(split(h))] = rec.domains[1]

\* C26 as stated: a record whose only domain is a single label is never
\* returned for a hostname of several labels that ends in that label.
C26_SingleLabelNeverReturned ==
    Resolved => ~SingleLabelOf(res_out, hostname_of(res_url))

\* C26, amended: a record whose only domain is a single label is returned
\* for a hostname of several labels ending in that label only when the
\* hostname is 'www.' followed by that label (the 'www.' toggling of step
\* 3); the parent-domain walk never returns it.
C26_SingleLabelOnlyByWww ==
    (Resolved /\ SingleLabelOf(res_out, hostname_of(res_url))) =>
        hostname_of(res_url) = WwwDot \o res_out.domains[1]

\* The walk ran over a hostname of three labels against a registry whose
\* only record carries the bare last label, and returned nothing.
C26_Witness ==
    /\ Resolved
    /\ Len(split(hostname_of(res_url))) = 3
    /\ Len(repo_parsers) = 1
    /\ SingleLabelOf(repo_parsers[1], hostname_of(res_url))
    /\ res_out = NoParser

\* ------------------------------------------------------------------------
\* More claims about the Script Execution Engine
\* ------------------------------------------------------------------------

\* The handler class of the last registration of the script.
LastRegistered(script) == ScriptRegs(script)[Len(ScriptRegs(script))]

\* What the task gives when it is run on the handler h alone.
TaskOn(h, task, doc) ==
    IF task = "getChapters" THEN task_getChapters(Handler(h), doc)
    ELSE task_getContent(Handler(h), doc)

\* run_parser_in_browser ran a script that registered more than once, and
\* its callback arrived.
RegisteredTwice ==
    /\ exec_out # NotRun
    /\ Len(ScriptRegs(exec_script)) >= 2
    /\ Len(exec_calls) > 0

\* C27: when a script registers more than once, the task runs on the
\* handler of the last registration: the result is the one that handler
\* gives, whatever the capabilities of the earlier handlers would do.
C27_LastRegistrationWins ==
    RegisteredTwice =>
        exec_out = Returned(TaskOn(LastRegistered(exec_script), exec_task,
                                   Document(page)).result)

\* The content task ran a script whose first handler throws in its
\* capability check and whose last one extracts content; content came back.
C27_Witness ==
    /\ RegisteredTwice
    /\ exec_task = "getContent"
    /\ Handler(ScriptRegs(exec_script)[1]).isChapterUrl = "throwError"
    /\ exec_out.status = "return"
    /\ exec_out.result.kind = "content"

\* The listing task ran a script whose first handler lists no chapter and
\* whose last one lists two; the two came back.
C27_WitnessListing ==
    /\ RegisteredTwice
    /\ exec_task = "getChapters"
    /\ Handler(ScriptRegs(exec_script)[1]).chapters = <<>>
    /\ exec_out.status = "return"
    /\ Len(exec_out.result.chapters) = 2

\* The handler that the evaluation of the script leaves active.
ActiveHandler(script) == Handler(eval_script(ScriptRegs(script), "").active)

\* The listing task ran on an active handler that reports the page as a
\* chapter page, the script sent no result of its own, and the callback of
\* the page function arrived.
ChapterPageListed ==
    /\ exec_out # NotRun
    /\ exec_task = "getChapters"
    /\ eval_script(ScriptRegs(exec_script), "").thrown = ""
    /\ eval_script(ScriptRegs(exec_script), "").active # ""
    /\ ActiveHandler(exec_script).isChapterUrl = "true"
    /\ ScriptCallbacks(exec_script) = <<>>
    /\ Len(exec_calls) > 0

\* C28: for the listing task on a handler that reports the current URL as a
\* chapter page, run_parser_in_browser returns a Chapters result with
\* exactly one chapter, whose url is the URL of the page and whose title is
\* the title of the page.
C28_SyntheticChapterIsPage ==
    ChapterPageListed =>
        /\ exec_out.status = "return"
        /\ exec_out.result.kind = "chapters"
        /\ Len(exec_out.result.chapters) = 1
        /\ exec_out.result.chapters[1].url =
               Href("abs", page.url.host, page.url.path)
        /\ exec_out.result.chapters[1].title = document_title(page)

\* ------------------------------------------------------------------------
\* More claims about the content phase
\* ------------------------------------------------------------------------

\* C29: the content phase takes its chapters one after the other: at most
\* one page is open at any time, and none is open when the loop turns to
\* the next chapter, whether the chapter before gave a section from the
\* script, a section from the raw markup, or failed.
C29_ChaptersSequential ==
    /\ pages_open <= 1
    /\ pc = "c_loop" => pages_open = 0

\* The page of a later chapter is open after an earlier chapter failed and
\* another one gave a section.
C29_Witness ==
    /\ pc = "c_goto"
    /\ pages_open = 1
    /\ c_i = 3
    /\ \E k \in 1..Len(c_log) : c_log[k].what = "navigation failed"
    /\ \E k \in 1..Len(c_log) : c_log[k].what = "section"

\* ------------------------------------------------------------------------
\* More claims about the Batch Registry Refresh
\* ------------------------------------------------------------------------

\* The entry of the manifest for f holds the domains that f itself
\* registered.
OwnDomains(entry) ==
    entry.domains = registered_domains(ScriptStmts(corpus[entry.filename]))

\* The file was taken by the loop and its try block ran to the end.
ScannedWithoutError(f) ==
    /\ \E i \in 1..processed_count : parser_files[i] = f
    /\ f \notin scan_failed

\* C30: a scan that entered its loop reaches the end of the loop over all
\* files, whichever of them failed or declared no domain: when it is done
\* every file was taken, every file scanned without error that registered
\* a domain has its entry, and at all times an entry holds the domains of
\* its own script only.
C30_RefreshRunsToCompletion ==
    /\ (scan_pc = "scanning") ~> (scan_pc = "done")
    /\ [](scan_pc = "done" =>
            /\ processed_count = Len(parser_files)
            /\ \A i \in 1..Len(parser_files) :
                   LET f == parser_files[i]
                   IN  (/\ ScannedWithoutError(f)
                        /\ Len(registered_domains(ScriptStmts(corpus[f]))) > 0)
                           => InManifest(f))
    /\ [](\A i \in 1..Len(manifest_data) : OwnDomains(manifest_data[i]))

\* The scan is done; its first file raised after its document, which had
\* registered a domain, was loaded, its second file registered nothing, and
\* its third file has an entry with other domains than the first.
ScanWentOn ==
    /\ scan_pc = "done"
    /\ Len(parser_files) = 3
    /\ parser_files[1] \in scan_failed
    /\ Len(registered_domains(ScriptStmts(corpus[parser_files[1]]))) > 0
    /\ ScannedWithoutError(parser_files[2])
    /\ ~InManifest(parser_files[2])
    /\ manifest_data = <<[filename |-> parser_files[3],
                          domains |-> registered_domains(
                              ScriptStmts(corpus[parser_files[3]]))]>>
    /\ registered_domains(ScriptStmts(corpus[parser_files[3]]))
           # registered_domains(ScriptStmts(corpus[parser_files[1]]))

\* The progress message of the tenth turn raised: the scan ended there, with
\* the tenth file not looked at and parsers.json not written.
ScanAbortedAtProgress ==
    /\ scan_pc = "aborted"
    /\ processed_count = ProgressEvery
    /\ Len(parser_files) >= ProgressEvery
    /\ manifest_file = NoManifest

\* page.evaluate has not returned for a file: later files are not taken.
ScanHung ==
    /\ scan_pc = "hung"
    /\ processed_count < Len(parser_files)

\* ------------------------------------------------------------------------
\* Specification SpecEnsure: the loaders of the Parser Store, called with
\* parsers.json and the parsers directory as they are on disk
\* ------------------------------------------------------------------------



\* One call of ensure_parsers_are_loaded on its own; the function holds no
\* await that yields, so the call is one step.
EnsureParsersAreLoaded ==
    /\ \E k \in 0..MaxBatch : ensure_call(k)
    /\ UNCHANGED <<convVars, contentVars, refreshVars, probeVars, readerVars,
                   envVars, jobVars>>

\* The files handed to load_parsers_from_json_content: invalid JSON, the
\* manifests of at most one entry, and those of two entries that end with
\* the entry of C.js, a script file that is never present.
Uploads ==
    {BadManifest}
        \cup {m \in Manifests : Len(m) <= 1}
        \cup {m \in Manifests : Len(m) = 2 /\ m[2].filename = "C.js"}

\* One call of load_parsers_from_json_content with an uploaded file, up to
\* its end or, when it saved its records, up to the await of line 207.
\* bulk_write applies all of its operations or raises after the first k:
\* when it raises, the exception leaves the call with the store cleared and
\* holding the first k records (lines 204-205 stand in no try); when it
\* returns, the store is replaced and the coroutine waits for edit_text
\* with PARSERS_LOADED as it was.
LoadParsersFromJsonContent ==
    /\ ~json_call.waiting
    /\ \E content \in Uploads, edited \in BOOLEAN, k \in 0..MaxBatch :
        LET n == Len(parsers_to_save(content, corpus))
            waits == content # BadManifest /\ n > 0 /\ k = n
            r == load_parsers_from_json_content(PARSERS_LOADED, repo_parsers,
                                                content, corpus, k, edited /\ ~waits)
        IN  /\ k <= n
            /\ repo_parsers' = r.coll
            /\ PARSERS_LOADED' = r.flag
            /\ op' = "load json"
            /\ op_batch' = r.to_save
            /\ op_ret' = r.ret
            /\ snap_old' = repo_parsers
            /\ snap_new' = r.to_save
            /\ repeated' = FALSE
            /\ loader' = [call |-> "json", flag |-> PARSERS_LOADED,
                          counted |-> FALSE, loaded |-> TRUE,
                          cleared |-> r.cleared, raised |-> r.raised /\ ~waits,
                          manifest |-> IF content # BadManifest
                                       THEN content ELSE <<>>]
            /\ json_call' = IF waits
                            THEN [waiting |-> TRUE, saved_count |-> r.ret,
                                  to_save |-> r.to_save, manifest |-> content]
                            ELSE NoJsonCall
    /\ UNCHANGED <<convVars, contentVars, refreshVars, probeVars, readerVars,
                   envVars, jobVars>>

\* The await of parser.py:207 ends: edit_text returned and line 208 sets
\* PARSERS_LOADED, or it raised and the call ends with the flag as it is.
\* The store is whatever the steps taken meanwhile left.
LoadParsersFromJsonReported ==
    /\ json_call.waiting
    /\ \E edited \in BOOLEAN :
           /\ PARSERS_LOADED' = (PARSERS_LOADED \/ edited)
           /\ loader' = [call |-> "json", flag |-> PARSERS_LOADED,
                         counted |-> FALSE, loaded |-> TRUE,
                         cleared |-> TRUE, raised |-> ~edited,
                         manifest |-> json_call.manifest]
    /\ op' = "report json"
    /\ op_batch' = json_call.to_save
    /\ op_ret' = json_call.saved_count
    /\ snap_old' = repo_parsers
    /\ snap_new' = repo_parsers
    /\ repeated' = FALSE
    /\ json_call' = NoJsonCall
    /\ UNCHANGED <<convVars, contentVars, refreshVars, probeVars, readerVars,
                   envVars, jobVars, repo_parsers>>

\* /cleandb (main.py:62-75): the first reply (line 65) is outside the try;
\* when it raises nothing is deleted.  Otherwise clean_database() empties
\* every collection.
CleanDbCommand ==
    /\ \E replied \in BOOLEAN :
           IF replied
           THEN /\ repo_parsers' = clean_database(repo_parsers).coll
                /\ custom_parsers' = clean_database(custom_parsers).coll
                /\ custom_latest' = {}
                /\ op' = "cleandb"
                /\ op_batch' = <<>>
                /\ op_ret' = clean_database(repo_parsers).ret
                /\ snap_old' = repo_parsers
                /\ snap_new' = <<>>
                /\ repeated' = FALSE
           ELSE UNCHANGED <<repo_parsers, custom_parsers, custom_latest, op, op_batch,
                            op_ret, snap_old, snap_new, repeated>>
    /\ UNCHANGED <<convVars, contentVars, refreshVars, PARSERS_LOADED, probeVars,
                   readerVars, deps_ok, jobVars, loader, json_call>>

\* The script files that may be present in the parsers directory.
PresentFiles == {{}, {"A.js"}, {"A.js", "B.js"}}

\* The process starts with whatever an earlier session left in the
\* repo_parsers collection, parsers.json and the parsers directory.
InitEnsure ==
    /\ repo_parsers \in {<<>>} \cup {<<r>> : r \in {s \in StoreRecords : s.domains = DomainsXac}}
    /\ PARSERS_LOADED = FALSE
    /\ InitProbe /\ InitWrite /\ InitReader /\ InitEnv /\ InitJob
    /\ \E present \in PresentFiles : corpus = [f \in present |-> "declA"]
    /\ listdir \in ListingOrders(DOMAIN corpus)
    /\ scan_pc = "idle"
    /\ parser_files = <<>>
    /\ processed_count = 0
    /\ manifest_data = <<>>
    /\ scan_page = <<>>
    /\ manifest_file \in Manifests \cup {NoManifest, BadManifest}
    /\ scan_failed = {}
    /\ scan_report = "none"

NextEnsure ==
    \/ EnsureParsersAreLoaded
    \/ LoadParsersFromJsonContent
    \/ LoadParsersFromJsonReported
    \/ CleanParsers
    \/ CleanDbCommand

SpecEnsure == InitEnsure /\ [][NextEnsure]_vars

\* ------------------------------------------------------------------------
\* Claims about the loaders and the PARSERS_LOADED flag
\* ------------------------------------------------------------------------

\* The step is a call of ensure_parsers_are_loaded.
EnsureCalled == op' = "ensure" /\ loader'.call = "ensure"

\* C31: ensure_parsers_are_loaded calls load_parsers_from_manifest only
\* when PARSERS_LOADED is unset and the store count is 0; PARSERS_LOADED
\* becomes set only in a load that saved at least one record or in a call
\* that counted a non-empty store; it is never reset; and a call made with
\* the flag set neither reads the count nor changes the Parser Store.
C31_EnsureLoadsOnce ==
    /\ []((op = "ensure" /\ loader.call = "ensure" /\ loader.loaded)
              => ~loader.flag /\ loader.counted /\ Len(snap_old) = 0)
    /\ [][(~PARSERS_LOADED /\ PARSERS_LOADED')
              => \/ loader'.loaded /\ loader'.cleared /\ op_ret' >= 1
                 \/ /\ loader'.call = "ensure" /\ loader'.counted
                    /\ ~loader'.loaded /\ Len(repo_parsers) > 0]_vars
    /\ [][PARSERS_LOADED => PARSERS_LOADED']_vars
    /\ [][(PARSERS_LOADED /\ EnsureCalled)
              => ~loader'.counted /\ ~loader'.loaded
                 /\ repo_parsers' = repo_parsers]_vars

\* ensure_parsers_are_loaded was called with the flag set and the store
\* emptied since (by /cleandb, by clean_repo_parsers, or by a load whose
\* save raised right after the clear): it left the store empty without
\* counting it, though parsers.json has a record to load.
C31_Witness ==
    /\ op = "ensure" /\ loader.call = "ensure" /\ loader.flag
    /\ PARSERS_LOADED
    /\ Len(snap_old) = 0 /\ Len(repo_parsers) = 0
    /\ manifest_file \in Manifests /\ Len(parsers_to_save(manifest_file, corpus)) > 0

\* The first call of a session found the store empty and loaded it.
C31_WitnessLoad ==
    /\ op = "ensure" /\ loader.loaded /\ ~loader.flag /\ PARSERS_LOADED
    /\ Len(snap_old) = 0 /\ Len(repo_parsers) > 0

\* The first call of a session found records and only set the flag.
C31_WitnessSeen ==
    /\ op = "ensure" /\ loader.counted /\ ~loader.loaded /\ ~loader.flag
    /\ PARSERS_LOADED /\ Len(repo_parsers) > 0

\* ------------------------------------------------------------------------
\* Claims about what a manifest load writes
\* ------------------------------------------------------------------------

\* The last write to the store is a loader's call that read a manifest.
ManifestLoaded == op \in {"ensure", "load json"} /\ loader.loaded

\* The entries of the manifest whose script file exists.
Loadable(manifest, dir) ==
    {i \in 1..Len(manifest) : manifest[i].filename \in DOMAIN dir}

\* The clear and the save of the last load both returned.
LoadSucceeded ==
    ManifestLoaded /\ loader.cleared /\ op_ret = Len(op_batch)

\* The store holds the record of entry e: its filename and domains, and the
\* content of its script file.
HoldsRecordOf(e) ==
    \E i \in 1..Len(repo_parsers) :
        /\ repo_parsers[i] = [filename |-> e.filename, domains |-> e.domains,
                              script |-> corpus[e.filename]]
        /\ \A j \in 1..Len(repo_parsers) :
               repo_parsers[j].filename = e.filename => j = i

\* C32: a manifest load with no loadable record leaves the Parser Store and
\* PARSERS_LOADED as they were; a load clears the store only when it has at
\* least one record to save; after a load that succeeded the store holds
\* one record for each manifest entry whose script file exists and no
\* other record.
C32_LoadReplacesOrKeeps ==
    /\ (ManifestLoaded /\ Loadable(loader.manifest, corpus) = {})
           => /\ repo_parsers = snap_old
              /\ PARSERS_LOADED = loader.flag
              /\ ~loader.cleared
    /\ (ManifestLoaded /\ loader.cleared) => Len(op_batch) >= 1
    /\ LoadSucceeded
           => /\ \A i \in Loadable(loader.manifest, corpus) :
                      HoldsRecordOf(loader.manifest[i])
              /\ Len(repo_parsers) = Cardinality(Loadable(loader.manifest, corpus))

\* A load succeeded on a manifest of two entries, one of whose script files
\* is missing, over a store that held a record of another file.
C32_Witness ==
    /\ LoadSucceeded
    /\ Len(loader.manifest) = 2
    /\ Cardinality(Loadable(loader.manifest, corpus)) = 1
    /\ Len(snap_old) = 1
    /\ \A i \in 1..Len(repo_parsers) : repo_parsers[i].filename # snap_old[1].filename

\* A load read a manifest whose script files are all missing, over a store
\* that holds a record.
C32_WitnessNothing ==
    /\ ManifestLoaded
    /\ Len(loader.manifest) > 0
    /\ Loadable(loader.manifest, corpus) = {}
    /\ Len(repo_parsers) > 0

\* ------------------------------------------------------------------------
\* Claims about the chapter selection of the conversation
\* ------------------------------------------------------------------------

\* create_epub_from_chapters has been called and has not returned to the
\* conversation yet.
ContentPhase == pc \in {"c_call", "c_loop", "c_goto", "c_exec", "c_raw", "c_done", "c_raised"}

\* The positions of user_data['chapters'] that the conversation counts as
\* selected (main.py:188).
ChatSelected ==
    {i \in 1..Len(user_data.chapters) : get_selected(user_data.chapters[i], TRUE)}

\* The positions of the chapters argument for which the content phase
\* opened a page.
Rendered ==
    {c_log[k].pos : k \in 1..Len(c_log)}
        \cup (IF pc \in {"c_goto", "c_exec", "c_raw"} THEN {c_i} ELSE {})

\* C33: the content phase is handed the chapters that the conversation
\* counts as selected, in their order; it opens a page only for a chapter
\* of that list and adds sections only for them; when it ends normally it
\* has opened a page for every one of them; and no step taken in
\* CHAPTER_SELECTION with no chapter selected starts the content phase.
C33_FetchesExactlySelected ==
    /\ [](ContentPhase =>
            /\ Len(c_chapters) = Cardinality(ChatSelected)
            /\ \A i \in ChatSelected :
                   c_chapters[Cardinality({j \in ChatSelected : j <= i})]
                       = user_data.chapters[i]
            /\ Rendered \subseteq 1..Len(c_chapters)
            /\ \A k \in 1..Len(sections) : sections[k].file_name \in Rendered
            /\ pc = "c_done" => Rendered = 1..Len(c_chapters))
    /\ [][(conv = "CHAPTER_SELECTION" /\ ChatSelected = {}) => ~ContentPhase']_vars

\* "Done" was pressed on a list that holds a selected chapter after an
\* unselected one, and the content phase it started ended normally: it was
\* handed the selected chapter alone and rendered it.
C33_Witness ==
    /\ pc = "c_done"
    /\ pressed = DataDone
    /\ Len(user_data.chapters) = 2
    /\ ChatSelected = {2}
    /\ c_chapters = <<user_data.chapters[2]>>
    /\ Rendered = {1}
    /\ Len(sections) = 1

\* "Done" was pressed on a list of chapters none of which is selected: the
\* conversation ended and no content phase runs.
DoneWithNoneSelected ==
    /\ pressed = DataDone
    /\ conv = "END"
    /\ pc = "idle"
    /\ Len(user_data.chapters) > 0
    /\ ChatSelected = {}
    /\ c_chapters = <<>>

\* "Done" was pressed on a list of two or more chapters that
\* get_chapter_list returned and the content phase it started ended
\* normally: it took every chapter of the list.
DoneOnWholeList ==
    /\ pc = "c_done"
    /\ pressed = DataDone
    /\ Len(user_data.chapters) >= 2
    /\ Cardinality(ChatSelected) = Len(user_data.chapters)
    /\ Cardinality(ChatSelected) = Len(c_chapters)
    /\ Rendered = 1..Len(c_chapters)
    /\ Len(sections) > 0

\* The step is a press of the button with callback_data d while the
\* conversation waits in CHAPTER_SELECTION.
Pressed(d) == conv = "CHAPTER_SELECTION" /\ pc = "idle" /\ pressed' = d

\* The step leaves the title, the number and order of the chapters, and
\* the title and url of each chapter as they are.
SameChapterList ==
    /\ user_data'.title = user_data.title
    /\ Len(user_data'.chapters) = Len(user_data.chapters)
    /\ \A i \in 1..Len(user_data.chapters) :
           /\ user_data'.chapters[i].title = user_data.chapters[i].title
           /\ user_data'.chapters[i].url = user_data.chapters[i].url

\* C34: in CHAPTER_SELECTION a press of the toggle button of a chapter
\* flips the selected flag of that chapter and of no other, and leaves the
\* title and the order of the chapters unchanged; "Select All" sets every
\* flag to true and "Deselect All" sets every flag to false.
C34_ButtonsSetFlags ==
    [][/\ \A k \in 1..Len(user_data.chapters) :
              Pressed(DataToggle(k - 1)) =>
                  /\ SameChapterList
                  /\ \A i \in 1..Len(user_data.chapters) :
                         get_selected(user_data'.chapters[i], TRUE)
                             = IF i = k
                               THEN ~get_selected(user_data.chapters[i], TRUE)
                               ELSE get_selected(user_data.chapters[i], TRUE)
       /\ Pressed(DataSelectAll) =>
              /\ SameChapterList
              /\ \A i \in 1..Len(user_data.chapters) :
                     get_selected(user_data'.chapters[i], FALSE)
       /\ Pressed(DataDeselectAll) =>
              /\ SameChapterList
              /\ \A i \in 1..Len(user_data.chapters) :
                     ~get_selected(user_data'.chapters[i], TRUE)]_vars

\* C34, the toggle buttons alone.
C34_ToggleFlips ==
    [][\A k \in 1..Len(user_data.chapters) :
           Pressed(DataToggle(k - 1)) =>
               get_selected(user_data'.chapters[k], TRUE)
                   = ~get_selected(user_data.chapters[k], TRUE)]_vars

\* C34, "Deselect All" alone.
C34_DeselectAllClears ==
    [][Pressed(DataDeselectAll) =>
           \A i \in 1..Len(user_data.chapters) :
               ~get_selected(user_data'.chapters[i], TRUE)]_vars

\* C34, "Select All" alone: every flag is set, unless the handler raised
\* before it read the data and left the chapters as they were.
C34_SelectAllSets ==
    [][Pressed(DataSelectAll) =>
           /\ SameChapterList
           /\ \/ \A i \in 1..Len(user_data.chapters) :
                     get_selected(user_data'.chapters[i], FALSE)
              \/ user_data' = user_data]_vars

====
